---- MODULE Spec2Model ----
(***************************************************************************)
(* A model of the simDemo configuration loader (config.py), the Ocean      *)
(* script generator (ocean_generator.py), the EDATool environment-line     *)
(* helpers, the shell script generator (shell_generator.py), the           *)
(* simulation executor (simulator.py) and the simulation manager with its  *)
(* command line (simulation_manager.py).                                   *)
(*                                                                         *)
(* Representation.  Python strings are TLA+ strings ("a" \o "b", Len and   *)
(* SubSeq work on them).  A YAML mapping with optional keys is a function  *)
(* whose DOMAIN is the set of keys that are present.  A Python list is a   *)
(* sequence.  A mapping whose order matters (analyses, variables, initial  *)
(* conditions: Python dicts keep insertion order) is a sequence of         *)
(* <<key, value>> pairs with distinct keys.  Documents respect the types   *)
(* of the data model: a section that is present is a mapping (possibly     *)
(* empty), a list is a list, temperature and supply voltage are numbers.   *)
(* Voltages are kept in tenths of a volt (1.8 V is 18) so that every       *)
(* number is an integer.                                                   *)
(***************************************************************************)
EXTENDS Integers, Sequences, FiniteSets, TLC

VARIABLES
    fs,               \* the set of paths for which os.path.exists is true
    dirs,             \* the paths of fs that are directories
    files,            \* what the program wrote: path -> content and mode
    task_yaml,        \* what yaml.safe_load gives for the task file
    testbench_yaml,   \* what yaml.safe_load gives for the testbench file
    testbench_parses, \* FALSE: the testbench file is not valid YAML
    system_yaml,      \* what yaml.safe_load gives for conf/system_config.yaml
    reader,           \* the ConfigReader object most recently constructed
    config,           \* the SimulationConfig most recently returned
    outcome,          \* how the most recent operation ended
    tool,             \* the EDATool whose environment lines are queried
    commands,         \* what get_source_commands / get_export_commands gave
    analysis_templates, \* the analysis types that have a template file
    script_content,   \* OceanScriptGenerator.script_content
    script,           \* the document generate_script returned last
    manager,          \* the SimulationManager: its config, None at first
    executor,         \* the SimulationExecutor and where its call stands
    simulation_process, \* the process run_ocean_simulation started
    clock             \* the time, in units of the shortest timeout

vars ==
    <<fs, dirs, files, task_yaml, testbench_yaml, testbench_parses,
      system_yaml, reader, config, outcome, tool, commands,
      analysis_templates, script_content, script, manager, executor,
      simulation_process, clock>>

\* the file system
disk == <<fs, dirs, files>>

\* the parsed documents
documents == <<task_yaml, testbench_yaml, testbench_parses, system_yaml>>

\* the state of the EDATool queries
tool_state == <<tool, commands>>

\* the state of the script generator
generator_state == <<analysis_templates, script_content, script>>

\* the state of a simulation run
execution == <<executor, simulation_process, clock>>

\* the state of the command-line session
session == <<manager, execution>>

-----------------------------------------------------------------------------
(* Python built-ins used by the code *)

\* str.startswith
startswith(s, prefix) ==
    /\ Len(s) >= Len(prefix)
    /\ SubSeq(s, 1, Len(prefix)) = prefix

\* the characters str.strip() removes that configuration lines can hold
Whitespace == {" ", "\t"}

RECURSIVE lstrip(_)
lstrip(s) ==
    IF Len(s) > 0 /\ SubSeq(s, 1, 1) \in Whitespace
    THEN lstrip(SubSeq(s, 2, Len(s)))
    ELSE s

RECURSIVE rstrip(_)
rstrip(s) ==
    IF Len(s) > 0 /\ SubSeq(s, Len(s), Len(s)) \in Whitespace
    THEN rstrip(SubSeq(s, 1, Len(s) - 1))
    ELSE s

\* str.strip
strip(s) == rstrip(lstrip(s))

\* the value of an expression worked out once: the element of {expression}
The(S) == CHOOSE x \in S : TRUE

\* dict.get(key, default)
Get(d, key, default) == IF key \in DOMAIN d THEN d[key] ELSE default

\* the empty mapping {}
EmptyMap == [k \in {} |-> ""]

\* the position of the last "/" of a path, 0 when it has none
RECURSIVE LastSlash(_, _)
LastSlash(p, i) ==
    IF i = 0 THEN 0
    ELSE IF SubSeq(p, i, i) = "/" THEN i
    ELSE LastSlash(p, i - 1)

\* os.path.basename
basename(p) == SubSeq(p, LastSlash(p, Len(p)) + 1, Len(p))

\* a path head without its trailing slashes, unless it is all slashes
RECURSIVE StripSlashes(_)
StripSlashes(h) ==
    IF Len(h) > 0 /\ SubSeq(h, Len(h), Len(h)) = "/"
    THEN StripSlashes(SubSeq(h, 1, Len(h) - 1))
    ELSE h

\* os.path.dirname
dirname(p) ==
    LET head == SubSeq(p, 1, LastSlash(p, Len(p)))
    IN  IF StripSlashes(head) = "" THEN head ELSE StripSlashes(head)

\* os.path.join of two components
join(a, b) ==
    IF startswith(b, "/") THEN b
    ELSE IF a = "" \/ SubSeq(a, Len(a), Len(a)) = "/" THEN a \o b
    ELSE a \o "/" \o b

\* the position of the last "." of a path after position lo, 0 when none
RECURSIVE LastDot(_, _, _)
LastDot(p, i, lo) ==
    IF i <= lo THEN 0
    ELSE IF SubSeq(p, i, i) = "." THEN i
    ELSE LastDot(p, i - 1, lo)

\* os.path.splitext(p)[1]: a leading dot of the file name starts no extension
splitext_ext(p) ==
    LET dot == LastDot(p, Len(p), LastSlash(p, Len(p)) + 1)
    IN  IF dot = 0 THEN "" ELSE SubSeq(p, dot, Len(p))

\* os.path.exists
exists(p) == p \in fs

-----------------------------------------------------------------------------
(* config.py: the data classes *)

\* SimulationConfig.__init__ defaults
DefaultTemperature == 27
DefaultSupplyVoltage == 18

\* ServerConfig()
ServerConfig(url, api_key) == [url |-> url, api_key |-> api_key]

\* EDATool()
EDATool(executable, launch_args, environment_variables) ==
    [executable |-> executable,
     launch_args |-> launch_args,
     environment_variables |-> environment_variables]

\* EDASToolsConfig(): one EDATool attribute per known tool
EDASToolsConfig == [spectre |-> EDATool("", <<>>, <<>>),
                    virtuoso |-> EDATool("", <<>>, <<>>)]

\* SimulationConfig()
SimulationConfig ==
    [simulator |-> "spectre",
     project_dir |-> "",
     library_name |-> "",
     cell_name |-> "",
     simulation_path |-> "",
     design_type |-> "schematic",
     eda_tools |-> EDASToolsConfig,
     model_files |-> <<>>,
     analyses |-> <<>>,
     stimulus_files |-> <<>>,
     design_variables |-> <<>>,
     save_nodes |-> <<>>,
     temperature |-> DefaultTemperature,
     supply_voltage |-> DefaultSupplyVoltage,
     server |-> ServerConfig("", ""),
     initial_conditions |-> <<>>,
     post_processing |-> EmptyMap]

\* SimulationConfig.project_name
project_name(c) ==
    IF c.project_dir # "" THEN basename(c.project_dir) ELSE "sim_project"

\* the test `not all([simulation_path, cell_name, simulator, design_type])`
AnyComponentEmpty(c) ==
    \/ c.simulation_path = ""
    \/ c.cell_name = ""
    \/ c.simulator = ""
    \/ c.design_type = ""

\* design_path with the simulator left out of the emptiness test
design_path_unguarded_simulator(c) ==
    IF c.simulation_path = "" \/ c.cell_name = "" \/ c.design_type = ""
    THEN ""
    ELSE c.simulation_path \o "/" \o c.cell_name \o "/" \o c.simulator
         \o "/" \o c.design_type \o "/netlist/netlist"

\* SimulationConfig.design_path
design_path(c) ==
    IF AnyComponentEmpty(c) THEN ""
    ELSE c.simulation_path \o "/" \o c.cell_name \o "/" \o c.simulator
         \o "/" \o c.design_type \o "/netlist/netlist"

\* results_dir without the emptiness test: a partial path
results_dir_partial(c) ==
    c.simulation_path \o "/" \o c.cell_name \o "/" \o c.simulator
    \o "/" \o c.design_type

\* SimulationConfig.results_dir
results_dir(c) ==
    IF AnyComponentEmpty(c) THEN ""
    ELSE c.simulation_path \o "/" \o c.cell_name \o "/" \o c.simulator
         \o "/" \o c.design_type

-----------------------------------------------------------------------------
(* config.py: ConfigReader *)

\* ConfigReader.SYSTEM_CONFIG_FILE
SYSTEM_CONFIG_FILE == "conf/system_config.yaml"

\* str.lower, for the upper-case letters the extensions of the model use
RECURSIVE lower(_)
lower(s) ==
    IF s = "" THEN ""
    ELSE LET c == SubSeq(s, 1, 1)
             l == CASE c = "Y" -> "y" [] c = "A" -> "a" [] c = "M" -> "m"
                    [] c = "L" -> "l" [] OTHER -> c
         IN  l \o lower(SubSeq(s, 2, Len(s)))

\* ConfigReader._load_config and _load_yaml on a file whose parsed content is
\* `content`; `parses` is FALSE when yaml.safe_load raises YAMLError
_load_config(config_path, content, parses) ==
    IF lower(splitext_ext(config_path)) \in {".yaml", ".yml"}
    THEN IF parses THEN [status |-> "ok", data |-> content]
         ELSE [status |-> "ValueError", data |-> EmptyMap]
    ELSE [status |-> "ValueError", data |-> EmptyMap]

\* ConfigReader._load_system_config
_load_system_config ==
    IF ~exists(SYSTEM_CONFIG_FILE)
    THEN [status |-> "IOError", data |-> EmptyMap]
    ELSE _load_config(SYSTEM_CONFIG_FILE, system_yaml, TRUE)

\* the part of ConfigReader.__init__ that finds the testbench file
testbench_file(config_file, testbench_path) ==
    IF ~exists(testbench_path)
    THEN join(dirname(config_file), testbench_path)
    ELSE testbench_path

\* a ConfigReader whose construction ended with `status`
ReaderObject(status, task, testbench, system) ==
    [status |-> status,
     task_config_data |-> task,
     testbench_config_data |-> testbench,
     system_config_data |-> system]

\* LoadTestbench raising when the named testbench file is not found
LoadTestbench_strict(config_file, task_data) ==
    LET testbench_path == Get(task_data, "testbench_config", "")
        file == testbench_file(config_file, testbench_path)
    IN  IF testbench_path = "" THEN [status |-> "ok", data |-> EmptyMap]
        ELSE IF exists(file)
        THEN _load_config(file, testbench_yaml, testbench_parses)
        ELSE [status |-> "ValueError", data |-> EmptyMap]

\* ConfigReader.__init__: the testbench the task file names.  A name that is
\* absent, or found neither as given nor beside the task file, leaves
\* testbench_config_data as it was set, {}
LoadTestbench(config_file, task_data) ==
    LET testbench_path == Get(task_data, "testbench_config", "")
        file == testbench_file(config_file, testbench_path)
    IN  IF testbench_path # "" /\ exists(file)
        THEN _load_config(file, testbench_yaml, testbench_parses)
        ELSE [status |-> "ok", data |-> EmptyMap]

\* ConfigReader.__init__
ConfigReader(config_file) ==
    LET sys  == _load_system_config
        task == _load_config(config_file, task_yaml, TRUE)
        tb   == LoadTestbench(config_file, task.data)
    IN  IF sys.status # "ok"
        THEN ReaderObject(sys.status, EmptyMap, EmptyMap, EmptyMap)
        ELSE IF config_file # "" /\ exists(config_file)
        THEN IF task.status # "ok"
             THEN ReaderObject(task.status, EmptyMap, EmptyMap, sys.data)
             ELSE IF tb.status # "ok"
             THEN ReaderObject(tb.status, task.data, EmptyMap, sys.data)
             ELSE ReaderObject("ok", task.data, tb.data, sys.data)
        ELSE ReaderObject("ok", EmptyMap, EmptyMap, sys.data)

\* the EDATool built from one tool entry of the system configuration
ToolFromData(tool_config_data) ==
    EDATool(Get(tool_config_data, "executable", ""),
            Get(tool_config_data, "launch_args", <<>>),
            Get(tool_config_data, "environment_variables", <<>>))

\* the EDASToolsConfig built from the eda_tools section
ToolsFromData(eda_config) ==
    [tool_name \in {"spectre", "virtuoso"} |->
        IF tool_name \in DOMAIN eda_config
        THEN ToolFromData(eda_config[tool_name])
        ELSE EDASToolsConfig[tool_name]]

\* the environment section read without its temperature
EnvironmentTemperature_ignored(env_config) == DefaultTemperature

\* the environment section of the testbench, applied to temperature
EnvironmentTemperature(env_config) ==
    Get(env_config, "temperature", DefaultTemperature)

\* the environment section of the testbench, applied to supply_voltage
EnvironmentSupplyVoltage(env_config) ==
    Get(env_config, "supply_voltage", DefaultSupplyVoltage)

\* no default simulator
default_simulator_none == ""

\* get_simulation_config: the simulator of a task file that names none
default_simulator == "spectre"

\* get_simulation_config: the design type of a task file that names none
default_design_type == "schematic"

\* ConfigReader.get_simulation_config
get_simulation_config(r) ==
    LET basic_config == Get(r.task_config_data, "simulation", EmptyMap)
        tb  == r.testbench_config_data
        sys == r.system_config_data
    IN  [simulator |-> Get(basic_config, "simulator", default_simulator),
         project_dir |-> Get(basic_config, "project_dir", ""),
         library_name |-> Get(basic_config, "library_name", ""),
         cell_name |-> Get(basic_config, "cell_name", ""),
         simulation_path |-> Get(basic_config, "simulation_path", ""),
         design_type |-> Get(basic_config, "design_type", default_design_type),
         eda_tools |->
            IF "eda_tools" \in DOMAIN sys
            THEN ToolsFromData(sys["eda_tools"])
            ELSE SimulationConfig.eda_tools,
         server |->
            IF "server" \in DOMAIN sys
            THEN ServerConfig(Get(sys["server"], "url", ""),
                              Get(sys["server"], "api_key", ""))
            ELSE SimulationConfig.server,
         model_files |->
            IF "models" \in DOMAIN tb
            THEN Get(tb["models"], "files", <<>>)
            ELSE SimulationConfig.model_files,
         analyses |->
            IF "analyses" \in DOMAIN tb
            THEN tb["analyses"] ELSE SimulationConfig.analyses,
         stimulus_files |->
            IF "stimulus" \in DOMAIN tb
            THEN Get(tb["stimulus"], "files", <<>>)
            ELSE SimulationConfig.stimulus_files,
         design_variables |->
            IF "variables" \in DOMAIN tb
            THEN tb["variables"] ELSE SimulationConfig.design_variables,
         save_nodes |->
            IF "outputs" \in DOMAIN tb
            THEN Get(tb["outputs"], "save_nodes", <<>>)
            ELSE SimulationConfig.save_nodes,
         initial_conditions |->
            IF "initial_conditions" \in DOMAIN tb
            THEN tb["initial_conditions"]
            ELSE SimulationConfig.initial_conditions,
         temperature |->
            IF "environment" \in DOMAIN tb
            THEN EnvironmentTemperature(tb["environment"])
            ELSE Get(basic_config, "temperature", DefaultTemperature),
         supply_voltage |->
            IF "environment" \in DOMAIN tb
            THEN EnvironmentSupplyVoltage(tb["environment"])
            ELSE Get(basic_config, "supply_voltage", DefaultSupplyVoltage),
         post_processing |->
            IF "post_processing" \in DOMAIN tb
            THEN tb["post_processing"]
            ELSE SimulationConfig.post_processing]

-----------------------------------------------------------------------------
(* config.py: tool lookup and validation *)

\* the names getattr finds on an EDASToolsConfig that are not tools: its
\* methods and the attributes every Python object has
OtherAttributes == {"get_tool_config", "__init__", "__class__", "__doc__"}

\* EDASToolsConfig.get_tool_config: getattr(self, tool_name, None).  kind is
\* "tool" for an EDATool, "attribute" for any other attribute of the object,
\* "none" for None
get_tool_config(eda_tools, tool_name) ==
    IF tool_name \in DOMAIN eda_tools
    THEN [kind |-> "tool", tool |-> eda_tools[tool_name]]
    ELSE IF tool_name \in OtherAttributes
    THEN [kind |-> "attribute", tool |-> EDATool("", <<>>, <<>>)]
    ELSE [kind |-> "none", tool |-> EDATool("", <<>>, <<>>)]

\* validate_config: the supported simulators
supported_simulators == {"spectre", "virtuoso"}

\* a list with one entry when the condition holds, else empty
ErrorIf(condition, entry) == IF condition THEN <<entry>> ELSE <<>>

\* validate_config: the project_dir check (if / elif)
ProjectDirErrors(c) ==
    IF c.project_dir = ""
    THEN <<"Project directory (project_dir) cannot be empty">>
    ELSE ErrorIf(~exists(c.project_dir),
                 "Project directory does not exist: " \o c.project_dir)

\* validate_config: one entry per model file [path, corner] that is missing
ModelFileErrors(c) ==
    LET missing == SelectSeq(c.model_files,
                             LAMBDA m : Len(m) >= 1 /\ ~exists(m[1]))
    IN  [i \in 1..Len(missing) |->
            "Model file does not exist: " \o missing[i][1]]

\* validate_config: one entry per stimulus file that is missing
StimulusFileErrors(c) ==
    LET missing == SelectSeq(c.stimulus_files, LAMBDA f : ~exists(f))
    IN  [i \in 1..Len(missing) |->
            "Stimulus file does not exist: " \o missing[i]]

\* validate_config: the checks of the selected simulator's tool entry
ToolErrors(c) ==
    LET tool_config == get_tool_config(c.eda_tools, c.simulator)
    IN  IF tool_config.kind = "none"
        THEN <<"No tool configuration found for simulator: " \o c.simulator>>
        ELSE ErrorIf(tool_config.tool.executable = "",
                     "Executable command not configured for simulator: "
                        \o c.simulator)
             \o ErrorIf(tool_config.tool.environment_variables = <<>>,
                     "No environment variables configured for simulator: "
                        \o c.simulator)

\* validate_config without the check of the analyses
AnalysesErrors_skipped(c) == <<>>

\* validate_config: the check that an analysis is configured
AnalysesErrors(c) ==
    ErrorIf(c.analyses = <<>>,
            "At least one analysis type must be configured")

\* ConfigReader.validate_config: the error list, or the AttributeError that
\* reading .executable of a value that is no EDATool raises
validate_config(c) ==
    IF get_tool_config(c.eda_tools, c.simulator).kind = "attribute"
    THEN [status |-> "AttributeError", errors |-> <<>>]
    ELSE [status |-> "ok",
          errors |->
            ProjectDirErrors(c)
            \o ErrorIf(c.simulation_path = "",
                       "Simulation path (simulation_path) cannot be empty")
            \o ErrorIf(c.library_name = "",
                       "Library name (library_name) cannot be empty")
            \o ErrorIf(c.cell_name = "",
                       "Cell name (cell_name) cannot be empty")
            \o ErrorIf(design_path(c) # "" /\ ~exists(design_path(c)),
                       "Design file does not exist (computed path): "
                          \o design_path(c))
            \o ModelFileErrors(c)
            \o StimulusFileErrors(c)
            \o AnalysesErrors(c)
            \o ErrorIf(c.simulator \notin supported_simulators,
                       "Unsupported simulator: " \o c.simulator)
            \o ToolErrors(c)]

\* the message of the ValueError load_task_config raises, as its lines
ValidationMessage(errors) ==
    <<"Configuration file validation failed:">>
    \o [i \in 1..Len(errors) |-> "- " \o errors[i]]

\* what an operation hands back: how it ended, the configuration it returned
\* (when it returned one), the validation entries and the error message
Result(status, c, errors, message) ==
    [status |-> status, config |-> c, errors |-> errors, message |-> message]

\* ConfigReader.load_task_config, given the reader it constructs
load_task_config(r) ==
    LET c == get_simulation_config(r)
        v == validate_config(c)
    IN  IF r.status # "ok"
        THEN Result(r.status, SimulationConfig, <<>>, <<>>)
        ELSE IF v.status # "ok"
        THEN Result(v.status, SimulationConfig, <<>>, <<>>)
        ELSE IF v.errors # <<>>
        THEN Result("ValueError", SimulationConfig, v.errors,
                    ValidationMessage(v.errors))
        ELSE Result("ok", c, <<>>, <<>>)

-----------------------------------------------------------------------------
(* The documents and file systems the operations are run on *)

\* a mapping without the keys outside K
Restrict(f, K) == [k \in K |-> f[k]]

\* every mapping got from one of `full` by leaving out some of `optional`
WithAbsentKeys(full, optional) ==
    {Restrict(f, DOMAIN f \ A) : f \in full, A \in SUBSET optional}

\* the keys of the task file's simulation section
SimulationKeys ==
    {"simulator", "project_dir", "library_name", "cell_name",
     "simulation_path", "design_type", "temperature", "supply_voltage"}

\* the keys of the testbench file
TestbenchKeys ==
    {"models", "analyses", "stimulus", "variables", "outputs",
     "initial_conditions", "environment", "post_processing"}

\* the argument of ConfigReader and load_task_config
TaskFile == "/w/task.yaml"
ConfigFiles == {TaskFile}

\* a parameter value with its text; str is TRUE for a Python str
Text(v) == [repr |-> v, str |-> TRUE]
Literal(v) == [repr |-> v, str |-> FALSE]

TranAnalysis == <<"tran", << <<"stop", Text("1n")>>, <<"step", Text("1p")>> >> >>
DcAnalysis == <<"dc", << <<"saveOppoint", Literal("True")>> >> >>
NoiseAnalysis == <<"noise", << <<"start", Literal("1")>>, <<"oprobe", Text("/out")>> >> >>

ModelFile == "/pdk/model.scs"
StimulusFile == "/w/stim/in.sp"
ProjectDir == "/w/proj"
DesignFile == "/w/sim/amp/spectre/schematic/netlist/netlist"

PostProcessing ==
    [plot_enabled |-> TRUE,
     plots |-> << [expr |-> "VT(\"/out\")", title |-> "out"] >>]

\* simulation sections: every subset of keys absent, empty and set values
LoadSimulations ==
    WithAbsentKeys([simulator : {"", "virtuoso", "hspice"},
                    project_dir : {ProjectDir},
                    library_name : {"lib"},
                    cell_name : {"", "amp"},
                    simulation_path : {"/w/sim"},
                    design_type : {"", "layout"},
                    temperature : {50},
                    supply_voltage : {33}],
                   SimulationKeys)

\* testbench documents: every subset of sections absent, empty and set ones
LoadTestbenches ==
    WithAbsentKeys([models : {EmptyMap,
                              [files |-> << <<ModelFile, "tt">> >>]},
                    analyses : {<<>>, <<TranAnalysis, DcAnalysis>>},
                    stimulus : {EmptyMap, [files |-> <<StimulusFile>>]},
                    variables : {<< <<"vdd", "1.8">> >>},
                    outputs : {EmptyMap, [save_nodes |-> <<"/out">>]},
                    initial_conditions : {<< <<"/in", "0.0">> >>},
                    environment : {EmptyMap,
                                   [temperature |-> 85],
                                   [supply_voltage |-> 12],
                                   [temperature |-> 85, supply_voltage |-> 12]},
                    post_processing : {PostProcessing}],
                   TestbenchKeys)

\* a complete testbench document
FullTestbench ==
    [models |-> [files |-> << <<ModelFile, "tt">> >>],
     analyses |-> <<TranAnalysis, DcAnalysis>>,
     stimulus |-> [files |-> <<StimulusFile>>],
     variables |-> << <<"vdd", "1.8">> >>,
     outputs |-> [save_nodes |-> <<"/out">>],
     initial_conditions |-> << <<"/in", "0.0">> >>,
     environment |-> [temperature |-> 85],
     post_processing |-> PostProcessing]

\* a complete simulation section
FullSimulation ==
    [simulator |-> "spectre", project_dir |-> ProjectDir,
     library_name |-> "lib", cell_name |-> "amp",
     simulation_path |-> "/w/sim", design_type |-> "schematic",
     temperature |-> 50, supply_voltage |-> 33]

\* the system configuration files
SystemDocuments ==
    {EmptyMap,
     [eda_tools |-> EmptyMap, server |-> EmptyMap],
     [eda_tools |->
        [spectre |-> [executable |-> "spectre",
                      launch_args |-> <<"+aps">>,
                      environment_variables |->
                         <<"source /opt/setup.sh", "export FOO=bar">>]],
      server |-> [url |-> "http://eda", api_key |-> "k"]],
     [eda_tools |->
        [spectre |-> [executable |-> "spectre"],
         virtuoso |-> [environment_variables |-> <<"export CDS=1">>]]]}

\* what is installed: the system configuration, which ships with the program
\* at SYSTEM_CONFIG_FILE, and the task file
Installed == {SYSTEM_CONFIG_FILE, TaskFile}

\* the testbench file: absent, where the task file names it, or beside the
\* task file
TestbenchPlacements == {{}, {"tb.yaml"}, {"/w/tb.yaml"}}

\* no command list asked for yet
NoCommands == [asked |-> {}, source |-> <<>>, export |-> <<>>]

\* a SimulationManager as constructed: config is None, and work_dir is
\* "./.sim_work", which as a Path is .sim_work. at is where the caller of
\* the manager stands: "none" between calls, "menu" and "pause" at the two
\* prompts of interactive_mode, "operation" in a call that does not return,
\* "ended" and "raised" once interactive_mode returned or raised
NoManager ==
    [loaded |-> FALSE, config |-> SimulationConfig, work_dir |-> ".sim_work",
     at |-> "none"]

\* no SimulationExecutor yet, and no handlers on the logger of the project.
\* start_time and end_time are None until started and ended are TRUE; runs
\* counts the calls of run_ocean_simulation that set start_time, end_run is
\* the call that set end_time, and prepared tells that prepare_simulation
\* was called
NoExecutor ==
    [pc |-> "none", simulation_status |-> "Not started",
     ocean_script_path |-> "", output_lines |-> <<>>, timeout |-> 0,
     start |-> 0, wait_from |-> 0, handlers |-> FALSE,
     started |-> FALSE, ended |-> FALSE, end |-> 0,
     runs |-> 0, end_run |-> 0, prepared |-> FALSE]

\* no process started yet; a process has a state, a return code once it
\* has exited, its end of the output pipe, the lines in the pipe, the
\* number of lines it wrote and whether terminate() was sent
NoProcess ==
    [state |-> "none", returncode |-> 0, stdout |-> "closed",
     pipe |-> <<>>, written |-> 0, terminated |-> FALSE]

\* no command-line session yet
SessionIdle ==
    /\ manager = NoManager
    /\ executor = NoExecutor
    /\ simulation_process = NoProcess
    /\ clock = 0

\* no operation run yet
NoOutcome == [op |-> "none"] @@ Result("ok", SimulationConfig, <<>>, <<>>)

\* the state before any operation, on the given documents and file system
InitOn(tasks, testbenches, parses, systems, filesystems) ==
    /\ task_yaml \in tasks
    /\ testbench_yaml \in testbenches
    /\ testbench_parses \in parses
    /\ system_yaml \in systems
    /\ fs \in filesystems
    /\ dirs = fs \cap {ProjectDir}
    /\ files = EmptyMap
    /\ reader = ReaderObject("none", EmptyMap, EmptyMap, EmptyMap)
    /\ config = SimulationConfig
    /\ outcome = NoOutcome
    /\ tool = EDATool("", <<>>, <<>>)
    /\ commands = NoCommands
    /\ analysis_templates = {}
    /\ script_content = <<>>
    /\ script = <<>>
    /\ SessionIdle

-----------------------------------------------------------------------------
(* The operations of config.py *)

\* reader = ConfigReader(config_file)
NewConfigReader ==
    \E config_file \in ConfigFiles :
        \E r \in {ConfigReader(config_file)} :
            /\ reader' = IF r.status = "ok" THEN r ELSE reader
            /\ outcome' = [op |-> "ConfigReader"]
                          @@ Result(r.status, SimulationConfig, <<>>, <<>>)
            /\ UNCHANGED <<session, disk, documents, config, tool_state,
                           generator_state>>

\* config = reader.get_simulation_config()
GetSimulationConfig ==
    /\ reader.status = "ok"
    /\ config' = get_simulation_config(reader)
    /\ outcome' = [op |-> "get_simulation_config"]
                  @@ Result("ok", config', <<>>, <<>>)
    /\ UNCHANGED <<session, disk, documents, reader, tool_state,
                   generator_state>>

\* errors = reader.validate_config(config)
ValidateConfig ==
    /\ reader.status = "ok"
    /\ LET v == validate_config(config)
       IN  outcome' = [op |-> "validate_config"]
                      @@ Result(v.status, config, v.errors, <<>>)
    /\ UNCHANGED <<session, disk, documents, reader, config, tool_state,
                   generator_state>>

\* config = load_task_config(config_file)
LoadTaskConfig ==
    \E config_file \in ConfigFiles :
        \E res \in {load_task_config(ConfigReader(config_file))} :
            /\ outcome' = [op |-> "load_task_config"] @@ res
            /\ config' = IF res.status = "ok" THEN res.config ELSE config
            /\ UNCHANGED <<session, disk, documents, reader, tool_state,
                           generator_state>>

\* Loading: every combination of absent keys, of the task file and of the
\* testbench file, and a testbench file that is missing, misnamed or broken
Init ==
    \/ InitOn({[simulation |-> s, testbench_config |-> "tb.yaml"] :
                  s \in LoadSimulations},
              {FullTestbench}, {TRUE}, {EmptyMap},
              {Installed \cup t : t \in TestbenchPlacements})
    \/ InitOn({[simulation |-> FullSimulation, testbench_config |-> "tb.yaml"],
               [simulation |-> [cell_name |-> "amp", temperature |-> 50],
                testbench_config |-> "tb.yaml"]},
              LoadTestbenches, {TRUE}, {EmptyMap},
              {Installed \cup {"tb.yaml"}})
    \/ InitOn({EmptyMap, [simulation |-> FullSimulation],
               [simulation |-> FullSimulation, testbench_config |-> "tb.yaml"],
               [simulation |-> FullSimulation, testbench_config |-> "tb.json"]},
              {FullTestbench}, {TRUE, FALSE}, SystemDocuments,
              {Installed, Installed \cup {"tb.yaml"}, Installed \cup {"tb.json"},
               {SYSTEM_CONFIG_FILE}})

Next == NewConfigReader \/ GetSimulationConfig

Spec == Init /\ [][Next]_vars

\* Validation: required fields set, empty or wrong, files present or not,
\* tools configured or not
ValidateSimulations ==
    WithAbsentKeys([simulator : {"virtuoso", "hspice", "get_tool_config"},
                    project_dir : {ProjectDir, "/w/gone"},
                    library_name : {"lib"},
                    cell_name : {"amp"},
                    simulation_path : {"/w/sim"},
                    design_type : {"schematic"}],
                   {"simulator", "project_dir", "library_name", "cell_name",
                    "simulation_path"})

InitValidate ==
    InitOn({[simulation |-> s, testbench_config |-> "tb.yaml"] :
               s \in ValidateSimulations},
           {FullTestbench,
            Restrict(FullTestbench, TestbenchKeys \ {"analyses"})},
           {TRUE},
           {d \in SystemDocuments :
               "eda_tools" \in DOMAIN d /\ d["eda_tools"] # EmptyMap},
           {Installed \cup {ProjectDir} \cup t \cup f :
               t \in {{}, {"/w/tb.yaml"}},
               f \in SUBSET {DesignFile, ModelFile, StimulusFile}})

NextValidate ==
    \/ NewConfigReader
    \/ GetSimulationConfig
    \/ ValidateConfig
    \/ LoadTaskConfig

SpecValidate == InitValidate /\ [][NextValidate]_vars

-----------------------------------------------------------------------------
(* Derived paths *)

\* the four components of the derived paths
PathComponents ==
    {"simulation_path", "cell_name", "simulator", "design_type"}

\* C1: with simulation_path, cell_name, simulator and design_type all set,
\* design_path is simulation_path/cell_name/simulator/design_type/netlist/netlist;
\* with any of the four empty it is the empty string
C1_DesignPathConcatenation ==
    /\ (\A f \in PathComponents : config[f] # "")
        => design_path(config)
           = config.simulation_path \o "/" \o config.cell_name \o "/"
             \o config.simulator \o "/" \o config.design_type
             \o "/netlist/netlist"
    /\ (\E f \in PathComponents : config[f] = "")
        => design_path(config) = ""

\* a loaded configuration with all four components set and its design path
C1_Witness ==
    /\ outcome.op = "get_simulation_config"
    /\ config.simulator = "virtuoso"
    /\ config.design_type = "layout"
    /\ design_path(config) = "/w/sim/amp/virtuoso/layout/netlist/netlist"

\* C2 as stated: each derived field is the empty string when a component it is
\* computed from is empty
C2_DerivedEmptyWhenComponentEmpty ==
    /\ config.project_dir = "" => project_name(config) = ""
    /\ (\E f \in PathComponents : config[f] = "")
        => design_path(config) = "" /\ results_dir(config) = ""

\* C2 amended: design_path and results_dir are the empty string when one of
\* their four components is empty, never a partial path; project_name is the
\* fixed name "sim_project" when project_dir is empty
C2_DerivedEmptyOrFallback ==
    /\ config.project_dir = "" => project_name(config) = "sim_project"
    /\ (\E f \in PathComponents : config[f] = "")
        => design_path(config) = "" /\ results_dir(config) = ""

\* a loaded configuration without project_dir and with some, not all,
\* components of the paths
C2_Witness ==
    /\ outcome.op = "get_simulation_config"
    /\ config.project_dir = ""
    /\ config.cell_name = ""
    /\ config.simulation_path = "/w/sim"
    /\ results_dir(config) = ""
    /\ project_name(config) = "sim_project"

-----------------------------------------------------------------------------
(* Loading *)

\* the task file is read and names a testbench file found neither as named
\* nor in the task file's directory /w
TestbenchUnresolved ==
    /\ TaskFile \in fs
    /\ "testbench_config" \in DOMAIN task_yaml
    /\ task_yaml["testbench_config"] # ""
    /\ task_yaml["testbench_config"] \notin fs
    /\ ("/w/" \o task_yaml["testbench_config"]) \notin fs

\* every field of a configuration that comes from the testbench is empty
TestbenchFieldsDefault(c) ==
    /\ c.model_files = <<>>
    /\ c.analyses = <<>>
    /\ c.stimulus_files = <<>>
    /\ c.design_variables = <<>>
    /\ c.save_nodes = <<>>
    /\ c.initial_conditions = <<>>
    /\ c.post_processing = EmptyMap

\* C3: when the task file names a testbench file that is found neither as
\* named nor beside the task file, ConfigReader and get_simulation_config do
\* not raise and every testbench-derived field of the result is empty
C3_UnresolvedTestbenchLeavesDefaults ==
    TestbenchUnresolved =>
        /\ outcome.op = "ConfigReader" => outcome.status = "ok"
        /\ reader.status = "ok" => reader.testbench_config_data = EmptyMap
        /\ outcome.op = "get_simulation_config" =>
              /\ outcome.status = "ok"
              /\ TestbenchFieldsDefault(outcome.config)

\* a configuration got although the named testbench file is nowhere
C3_Witness ==
    /\ TestbenchUnresolved
    /\ outcome.op = "get_simulation_config"
    /\ outcome.config.simulator = "hspice"
    /\ outcome.config.analyses = <<>>

\* the value of a task-level key when the simulation section has none
TaskDefaults ==
    [simulator |-> "spectre", project_dir |-> "", library_name |-> "",
     cell_name |-> "", simulation_path |-> "", design_type |-> "schematic"]

\* the simulation section the reader holds, {} when the task file has none
ReadSimulation ==
    IF "simulation" \in DOMAIN reader.task_config_data
    THEN reader.task_config_data["simulation"]
    ELSE EmptyMap

\* the reader's testbench has no `key` inside `section`, or no `section`
TestbenchLacks(section, key) ==
    \/ section \notin DOMAIN reader.testbench_config_data
    \/ key \notin DOMAIN reader.testbench_config_data[section]

-----------------------------------------------------------------------------
(* Validation *)

\* s has sub as a substring
Contains(s, sub) ==
    \E i \in 1..(Len(s) - Len(sub) + 1) : SubSeq(s, i, i + Len(sub) - 1) = sub

\* the entries of a list, as a set
Entries(errors) == {errors[i] : i \in DOMAIN errors}

OwedEntries(c) ==
    {"Simulation path (simulation_path) cannot be empty" :
        x \in {1} \cap (IF c.simulation_path = "" THEN {1} ELSE {})}
    \cup {"Library name (library_name) cannot be empty" :
        x \in {1} \cap (IF c.library_name = "" THEN {1} ELSE {})}
    \cup {"Cell name (cell_name) cannot be empty" :
        x \in {1} \cap (IF c.cell_name = "" THEN {1} ELSE {})}
    \cup {"At least one analysis type must be configured" :
        x \in {1} \cap (IF c.analyses = <<>> THEN {1} ELSE {})}
    \cup {"Unsupported simulator: " \o c.simulator :
        x \in {1} \cap (IF c.simulator \notin {"spectre", "virtuoso"}
                        THEN {1} ELSE {})}
    \cup {"Model file does not exist: " \o c.model_files[i][1] :
        i \in {j \in DOMAIN c.model_files : c.model_files[j][1] \notin fs}}
    \cup {"Stimulus file does not exist: " \o c.stimulus_files[i] :
        i \in {j \in DOMAIN c.stimulus_files : c.stimulus_files[j] \notin fs}}
    \cup {"Executable command not configured for simulator: " \o c.simulator :
        x \in {1} \cap (IF c.simulator \in {"spectre", "virtuoso"}
                           /\ c.eda_tools[c.simulator].executable = ""
                        THEN {1} ELSE {})}
    \cup {"No environment variables configured for simulator: " \o c.simulator :
        x \in {1} \cap (IF c.simulator \in {"spectre", "virtuoso"}
                           /\ c.eda_tools[c.simulator].environment_variables
                              = <<>>
                        THEN {1} ELSE {})}

\* C5: validate_config on a configuration with an empty project_dir returns a
\* list with exactly one entry about project_dir, together with the entry of
\* every other check that fails at the same time
C5_ProjectDirReportedWithOthers ==
    (outcome.op = "validate_config" /\ config.project_dir = "") =>
        /\ outcome.status = "ok"
        /\ Cardinality({i \in DOMAIN outcome.errors :
                           Contains(outcome.errors[i], "project_dir")}) = 1
        /\ OwedEntries(config) \subseteq Entries(outcome.errors)

\* C5 for every simulator name that is not an attribute of the tools object
C5_ExceptNonToolAttributes ==
    (outcome.op = "validate_config" /\ config.project_dir = ""
     /\ config.simulator \notin OtherAttributes) =>
        /\ outcome.status = "ok"
        /\ Cardinality({i \in DOMAIN outcome.errors :
                           Contains(outcome.errors[i], "project_dir")}) = 1
        /\ OwedEntries(config) \subseteq Entries(outcome.errors)

\* the configuration load_task_config reads from the task file
ReadConfiguration == get_simulation_config(ConfigReader(TaskFile))

\* C7: load_task_config returns a configuration exactly when validate_config
\* has no entry for it; otherwise it raises one ValueError whose message has
\* every entry on a line of its own, in particular when project_dir,
\* library_name or cell_name is empty, no analysis is configured or the
\* simulator is neither spectre nor virtuoso
C7_LoadReturnsIffValid ==
    (outcome.op = "load_task_config" /\ ConfigReader(TaskFile).status = "ok")
    =>  LET c == ReadConfiguration
            v == validate_config(c)
        IN  /\ outcome.status = "ok" <=> (v.status = "ok" /\ v.errors = <<>>)
            /\ outcome.status # "ok" =>
                  /\ outcome.status = "ValueError"
                  /\ \A e \in Entries(v.errors) :
                        ("- " \o e) \in Entries(outcome.message)
            /\ (\/ c.project_dir = ""
                \/ c.library_name = ""
                \/ c.cell_name = ""
                \/ c.analyses = <<>>
                \/ c.simulator \notin {"spectre", "virtuoso"})
                  => outcome.status = "ValueError"

\* C7 for every simulator name that is not an attribute of the tools object
C7_ExceptNonToolAttributes ==
    ReadConfiguration.simulator \notin OtherAttributes
        => C7_LoadReturnsIffValid

\* the task file has a simulation section that names no simulator
SimulatorUnspecified ==
    /\ TaskFile \in fs
    /\ "simulation" \in DOMAIN task_yaml
    /\ "simulator" \notin DOMAIN task_yaml["simulation"]

\* C8 as stated: loading and validating a task file that names no simulator
\* fails with an error that reports the simulator
C8_MissingSimulatorRejected ==
    (outcome.op = "load_task_config" /\ SimulatorUnspecified) =>
        /\ outcome.status = "ValueError"
        /\ \E e \in Entries(outcome.errors) : Contains(e, "imulator")

\* every check of validate_config other than the simulator's passes for c
\* read as a spectre configuration
OtherChecksPass(c) ==
    /\ c.project_dir # "" /\ c.project_dir \in fs
    /\ c.simulation_path # "" /\ c.library_name # "" /\ c.cell_name # ""
    /\ (c.simulation_path \o "/" \o c.cell_name \o "/spectre/"
           \o c.design_type \o "/netlist/netlist") \in fs
    /\ \A i \in DOMAIN c.model_files : c.model_files[i][1] \in fs
    /\ \A i \in DOMAIN c.stimulus_files : c.stimulus_files[i] \in fs
    /\ c.analyses # <<>>
    /\ c.eda_tools["spectre"].executable # ""
    /\ c.eda_tools["spectre"].environment_variables # <<>>

\* C8 amended: a task file that names no simulator is loaded with the
\* simulator spectre; validation has no entry about the simulator being
\* unsupported for it, and load_task_config returns the configuration
\* exactly when every other check passes
C8_MissingSimulatorDefaultsToSpectre ==
    SimulatorUnspecified =>
        /\ outcome.op = "get_simulation_config"
              => outcome.config.simulator = "spectre"
        /\ outcome.op = "load_task_config" =>
              /\ outcome.status \in {"ok", "ValueError"}
              /\ outcome.status = "ok" <=> OtherChecksPass(ReadConfiguration)
              /\ outcome.status = "ok" => outcome.config.simulator = "spectre"
              /\ \A e \in Entries(outcome.errors) :
                    /\ ~startswith(e, "Unsupported simulator")
                    /\ ~startswith(e, "No tool configuration")

\* a task file without a simulator loaded and validated without error
C8_Witness ==
    /\ SimulatorUnspecified
    /\ outcome.op = "load_task_config"
    /\ outcome.status = "ok"
    /\ outcome.config.simulator = "spectre"
    /\ outcome.config.analyses # <<>>

-----------------------------------------------------------------------------
(* config.py: the environment lines of an EDATool *)

\* the environment lines of a tool, each stripped
StrippedLines(t) ==
    [i \in 1..Len(t.environment_variables) |->
        strip(t.environment_variables[i])]

\* the loop written so that it puts each stripped line back into the list
environment_variables_stripped(t) == StrippedLines(t)

\* self.environment_variables after the loop of get_source_commands or of
\* get_export_commands: env_line = env_line.strip() binds the loop variable
\* to a new string, the list keeps its lines
environment_variables_after_loop(t) == t.environment_variables

\* EDATool.get_source_commands
get_source_commands(t) ==
    SelectSeq(StrippedLines(t), LAMBDA env_line : startswith(env_line, "source "))

\* get_export_commands that does not skip the source lines
get_export_commands_keeping_source(t) ==
    [i \in 1..Len(t.environment_variables) |->
        IF startswith(StrippedLines(t)[i], "export ")
        THEN StrippedLines(t)[i]
        ELSE "export " \o StrippedLines(t)[i]]

\* EDATool.get_export_commands
get_export_commands(t) ==
    LET kept == SelectSeq(StrippedLines(t),
                          LAMBDA env_line : ~startswith(env_line, "source "))
    IN  [i \in 1..Len(kept) |->
            IF startswith(kept[i], "export ")
            THEN kept[i]
            ELSE "export " \o kept[i]]

\* the longest list of environment lines
MaxEnvLines == 3

\* environment lines: source and export lines, bare assignments, lines with
\* blanks around them and near misses of the two prefixes
EnvLines ==
    {"source /opt/setup.sh", "export FOO=bar", "BAR=1", "  source /a ",
     " export C=3", "source", "exportX=1"}

\* every list of at most n of the given lines
ListsUpTo(lines, n) == UNION {[1..k -> lines] : k \in 0..n}

\* source_commands = tool.get_source_commands()
GetSourceCommands ==
    /\ commands' = [commands EXCEPT !.asked = @ \cup {"source"},
                                    !.source = get_source_commands(tool)]
    /\ tool' = [tool EXCEPT !.environment_variables =
                                 environment_variables_after_loop(tool)]
    /\ outcome' = [NoOutcome EXCEPT !.op = "get_source_commands"]
    /\ UNCHANGED <<session, disk, documents, reader, config,
                   generator_state>>

\* export_commands = tool.get_export_commands()
GetExportCommands ==
    /\ commands' = [commands EXCEPT !.asked = @ \cup {"export"},
                                    !.export = get_export_commands(tool)]
    /\ tool' = [tool EXCEPT !.environment_variables =
                                 environment_variables_after_loop(tool)]
    /\ outcome' = [NoOutcome EXCEPT !.op = "get_export_commands"]
    /\ UNCHANGED <<session, disk, documents, reader, config,
                   generator_state>>

\* an EDATool constructed with a list of environment lines
InitEnv ==
    /\ task_yaml = EmptyMap
    /\ testbench_yaml = EmptyMap
    /\ testbench_parses = TRUE
    /\ system_yaml = EmptyMap
    /\ fs = Installed
    /\ dirs = {}
    /\ files = EmptyMap
    /\ reader = ReaderObject("none", EmptyMap, EmptyMap, EmptyMap)
    /\ config = SimulationConfig
    /\ outcome = NoOutcome
    /\ tool \in {EDATool("spectre", <<>>, lines) :
                    lines \in ListsUpTo(EnvLines, MaxEnvLines)}
    /\ commands = NoCommands
    /\ analysis_templates = {}
    /\ script_content = <<>>
    /\ script = <<>>
    /\ SessionIdle

NextEnv == GetSourceCommands \/ GetExportCommands

SpecEnv == InitEnv /\ [][NextEnv]_vars

\* the positions of the lines that are source lines once stripped
SourcePositions ==
    {i \in DOMAIN tool.environment_variables :
        startswith(strip(tool.environment_variables[i]), "source ")}

\* the k-th smallest of a set of positions
Nth(positions, k) ==
    CHOOSE i \in positions : Cardinality({j \in positions : j <= i}) = k

\* C9: get_source_commands returns exactly the stripped lines that begin with
\* "source ", in their order; get_export_commands returns exactly the other
\* lines in their order, each beginning with "export ": unchanged when it
\* already does, with "export " put in front otherwise; the two results
\* together account for every line once
C9_SourceExportPartition ==
    LET lines == tool.environment_variables
        others == DOMAIN lines \ SourcePositions
    IN  /\ "source" \in commands.asked =>
              /\ Len(commands.source) = Cardinality(SourcePositions)
              /\ \A k \in DOMAIN commands.source :
                    commands.source[k] = strip(lines[Nth(SourcePositions, k)])
        /\ "export" \in commands.asked =>
              /\ Len(commands.export) = Cardinality(others)
              /\ \A k \in DOMAIN commands.export :
                    LET line == strip(lines[Nth(others, k)])
                    IN  /\ startswith(commands.export[k], "export ")
                        /\ commands.export[k]
                           = IF startswith(line, "export ") THEN line
                             ELSE "export " \o line
        /\ commands.asked = {"source", "export"} =>
              Len(commands.source) + Len(commands.export) = Len(lines)

\* both lists asked of a tool with a padded source line, a bare assignment
\* and an export line
C9_Witness ==
    /\ tool.environment_variables = <<"  source /a ", "BAR=1", "export FOO=bar">>
    /\ commands.asked = {"source", "export"}
    /\ commands.source = <<"source /a">>
    /\ commands.export = <<"export BAR=1", "export FOO=bar">>

-----------------------------------------------------------------------------
(* ocean_generator.py: OceanScriptGenerator *)

LowerCase == "abcdefghijklmnopqrstuvwxyz"
UpperCase == "ABCDEFGHIJKLMNOPQRSTUVWXYZ"

\* str.upper
RECURSIVE upper(_)
upper(s) ==
    IF s = "" THEN ""
    ELSE LET c == SubSeq(s, 1, 1)
             at == {i \in 1..Len(LowerCase) : SubSeq(LowerCase, i, i) = c}
             u == IF at = {} THEN c
                  ELSE LET i == CHOOSE i \in at : TRUE
                       IN  SubSeq(UpperCase, i, i)
         IN  u \o upper(SubSeq(s, 2, Len(s)))

\* pathlib.Path: the empty path is the current directory
Path(p) == IF p = "" THEN "." ELSE p

\* Path.is_dir on a disk with the given directories; the current directory
\* is always there
is_dir(path, directories) == path = "." \/ path \in directories

\* the directories above a path
RECURSIVE Parents(_)
Parents(p) ==
    LET d == dirname(p)
    IN  IF d = p \/ d = "" THEN {} ELSE {d} \cup Parents(d)

\* mkdir that reports success and makes nothing
mkdir_nothing_made(path, paths, directories) ==
    [status |-> "ok", fs |-> paths, dirs |-> directories]

\* Path(path).mkdir(parents=True, exist_ok=True) on a file system with the
\* given paths and directories; Path("") is the current directory
mkdir(path, paths, directories) ==
    LET chain == {path} \cup Parents(path)
    IN  IF path = "" \/ path \in directories
        THEN [status |-> "ok", fs |-> paths, dirs |-> directories]
        ELSE IF chain \cap (paths \ directories) # {}
        THEN [status |-> "OSError", fs |-> paths, dirs |-> directories]
        ELSE [status |-> "ok", fs |-> paths \cup chain,
              dirs |-> directories \cup chain]

\* what template.render(arguments) gives for the named template
Fragment(template, arguments) ==
    [template |-> template, arguments |-> arguments]

\* the templates every script uses
ScriptTemplates ==
    {"header", "simulator", "design", "results_dir", "model_file", "stimulus",
     "design_variables", "save_nodes", "initial_conditions", "environment",
     "run", "post_processing"}

\* OceanScriptGenerator._add_header
_add_header(c) == <<Fragment("header", [project_name |-> project_name(c)])>>

\* OceanScriptGenerator._add_simulator
_add_simulator(c) == <<Fragment("simulator", [simulator |-> c.simulator])>>

\* OceanScriptGenerator._add_design
_add_design(c) == <<Fragment("design", [design_path |-> design_path(c)])>>

\* OceanScriptGenerator._add_results_dir, once the directory is made
_add_results_dir(c) ==
    <<Fragment("results_dir", [results_dir |-> results_dir(c)])>>

\* OceanScriptGenerator._add_model_files
_add_model_files(c) ==
    IF c.model_files # <<>>
    THEN <<Fragment("model_file", [model_files |-> c.model_files])>>
    ELSE <<>>

\* OceanScriptGenerator._add_stimulus_files
_add_stimulus_files(c) ==
    IF c.stimulus_files # <<>>
    THEN <<Fragment("stimulus", [stimulus_files |-> c.stimulus_files])>>
    ELSE <<>>

\* OceanScriptGenerator._add_design_variables
_add_design_variables(c) ==
    IF c.design_variables # <<>>
    THEN <<Fragment("design_variables",
                    [design_variables |-> c.design_variables])>>
    ELSE <<>>

\* the parameter lines with every value in double quotes, textual or not
RECURSIVE GenericParameters_all_quoted(_)
GenericParameters_all_quoted(params) ==
    IF params = <<>> THEN ""
    ELSE LET param == Head(params)[1]
             value == Head(params)[2]
         IN  "         ?" \o param \o " \"" \o value.repr \o "\"\n"
             \o GenericParameters_all_quoted(Tail(params))

\* the parameter lines of _add_generic_analysis
RECURSIVE GenericParameters(_)
GenericParameters(params) ==
    IF params = <<>> THEN ""
    ELSE LET param == Head(params)[1]
             value == Head(params)[2]
         IN  (IF value.str
              THEN "         ?" \o param \o " \"" \o value.repr \o "\"\n"
              ELSE "         ?" \o param \o " " \o value.repr \o "\n")
             \o GenericParameters(Tail(params))

\* OceanScriptGenerator._add_generic_analysis: the text it appends
_add_generic_analysis(analysis_type, params) ==
    [text |-> "; " \o upper(analysis_type) \o " analysis configuration\n"
              \o "analysis('" \o analysis_type \o "\n"
              \o GenericParameters(params)
              \o ")\n"]

\* _add_analyses that appends the generic text as well as the template's
\* block when the type has a template
RECURSIVE _add_analyses_both(_, _)
_add_analyses_both(analyses, templates) ==
    IF analyses = <<>> THEN <<>>
    ELSE LET analysis_type == Head(analyses)[1]
             analysis_params == Head(analyses)[2]
         IN  (IF analysis_type \in templates
              THEN <<Fragment("analysis_" \o analysis_type,
                              [analysis_params |-> analysis_params])>>
              ELSE <<>>)
             \o <<_add_generic_analysis(analysis_type, analysis_params)>>
             \o _add_analyses_both(Tail(analyses), templates)

\* OceanScriptGenerator._add_analyses: the template of the analysis type
\* where there is one, the generic text where loading it raises
RECURSIVE _add_analyses(_, _)
_add_analyses(analyses, templates) ==
    IF analyses = <<>> THEN <<>>
    ELSE LET analysis_type == Head(analyses)[1]
             analysis_params == Head(analyses)[2]
         IN  << IF analysis_type \in templates
                THEN Fragment("analysis_" \o analysis_type,
                              [analysis_params |-> analysis_params])
                ELSE _add_generic_analysis(analysis_type, analysis_params) >>
             \o _add_analyses(Tail(analyses), templates)

\* _add_save_nodes that appends its fragment whatever the configuration has
_add_save_nodes_always(c) ==
    <<Fragment("save_nodes", [save_nodes |-> c.save_nodes])>>

\* OceanScriptGenerator._add_save_nodes
_add_save_nodes(c) ==
    IF c.save_nodes # <<>>
    THEN <<Fragment("save_nodes", [save_nodes |-> c.save_nodes])>>
    ELSE <<>>

\* OceanScriptGenerator._add_initial_conditions
_add_initial_conditions(c) ==
    IF c.initial_conditions # <<>>
    THEN <<Fragment("initial_conditions",
                    [initial_conditions |-> c.initial_conditions])>>
    ELSE <<>>

\* OceanScriptGenerator._add_environment
_add_environment(c) ==
    <<Fragment("environment", [temperature |-> c.temperature])>>

\* OceanScriptGenerator._add_run
_add_run(c) == <<Fragment("run", EmptyMap)>>

\* OceanScriptGenerator._add_post_processing
_add_post_processing(c) ==
    IF c.post_processing # EmptyMap
    THEN LET main_analysis == IF c.analyses # <<>> THEN Head(c.analyses)[1]
                              ELSE "tran"
         IN  <<Fragment("post_processing",
                        [analysis_type |-> main_analysis,
                         plot_enabled |-> Get(c.post_processing,
                                              "plot_enabled", FALSE),
                         plots |-> Get(c.post_processing, "plots", <<>>),
                         save_data |-> Get(c.post_processing,
                                           "save_data", FALSE),
                         save_items |-> Get(c.post_processing,
                                            "save_items", <<>>)])>>
    ELSE <<>>

\* what generate_script leaves: how it ended, script_content and the disk
Generated(status, content, paths, directories) ==
    [status |-> status, script_content |-> content,
     fs |-> paths, dirs |-> directories]

\* generate_script that saves the nodes before it configures the analyses
generate_script_nodes_first(c, templates, paths, directories) ==
    LET begun == _add_header(c) \o _add_simulator(c) \o _add_design(c)
        made == mkdir(results_dir(c), paths, directories)
    IN  IF made.status # "ok"
        THEN Generated(made.status, begun, paths, directories)
        ELSE Generated("ok",
                       begun
                       \o _add_results_dir(c)
                       \o _add_model_files(c)
                       \o _add_stimulus_files(c)
                       \o _add_design_variables(c)
                       \o _add_save_nodes(c)
                       \o _add_analyses(c.analyses, templates)
                       \o _add_initial_conditions(c)
                       \o _add_environment(c)
                       \o _add_run(c)
                       \o _add_post_processing(c),
                       made.fs, made.dirs)

\* OceanScriptGenerator.generate_script: script_content starts empty; making
\* the results directory may raise, after the first three fragments
generate_script(c, templates, paths, directories) ==
    LET begun == _add_header(c) \o _add_simulator(c) \o _add_design(c)
        made == mkdir(results_dir(c), paths, directories)
    IN  IF made.status # "ok"
        THEN Generated(made.status, begun, paths, directories)
        ELSE Generated("ok",
                       begun
                       \o _add_results_dir(c)
                       \o _add_model_files(c)
                       \o _add_stimulus_files(c)
                       \o _add_design_variables(c)
                       \o _add_analyses(c.analyses, templates)
                       \o _add_save_nodes(c)
                       \o _add_initial_conditions(c)
                       \o _add_environment(c)
                       \o _add_run(c)
                       \o _add_post_processing(c),
                       made.fs, made.dirs)

\* generate_script that goes on from the fragments of the call before
script_content_kept(previous) == previous

\* generate_script, first statement: self.script_content = []
script_content_reset(previous) == <<>>

\* script = generator.generate_script(): the list is emptied, the fragments
\* are appended to it, and the list joined is what is returned
GenerateScript ==
    \E g \in {generate_script(config, analysis_templates, fs, dirs)} :
        /\ script_content' = script_content_reset(script_content)
                              \o g.script_content
        /\ script' = IF g.status = "ok" THEN script_content' ELSE script
        /\ fs' = g.fs
        /\ dirs' = g.dirs
        /\ outcome' = [op |-> "generate_script"]
                      @@ Result(g.status, config, <<>>, <<>>)
        /\ UNCHANGED <<session, files, documents, reader, config, tool_state,
                       analysis_templates>>

\* the most analyses a configuration has
MaxAnalyses == 2

\* the analyses of a configuration: at most n, of different types
AnalysesUpTo(n) ==
    {a \in ListsUpTo({TranAnalysis, DcAnalysis, NoiseAnalysis}, n) :
        \A i, j \in DOMAIN a : a[i][1] = a[j][1] => i = j}

\* the optional parts of a configuration, each empty or set
OceanParts ==
    [model_files : {<<>>, << <<ModelFile, "tt">> >>},
     stimulus_files : {<<>>, <<StimulusFile>>},
     design_variables : {<<>>, << <<"vdd", "1.8">> >>},
     save_nodes : {<<>>, <<"/out">>},
     initial_conditions : {<<>>, << <<"/in", "0.0">> >>},
     post_processing : {EmptyMap, PostProcessing}]

\* configurations with the given simulation paths, analyses and parts
OceanConfigsOn(simulation_paths, analyses_lists, parts_records) ==
    {[SimulationConfig EXCEPT
        !.project_dir = ProjectDir,
        !.simulation_path = simulation_path, !.cell_name = "amp",
        !.library_name = "lib",
        !.model_files = parts.model_files,
        !.stimulus_files = parts.stimulus_files,
        !.design_variables = parts.design_variables,
        !.analyses = analyses,
        !.save_nodes = parts.save_nodes,
        !.initial_conditions = parts.initial_conditions,
        !.post_processing = parts.post_processing] :
     simulation_path \in simulation_paths,
     analyses \in analyses_lists,
     parts \in parts_records}

\* configurations with each optional part empty or set
OceanConfigs ==
    OceanConfigsOn({"", "/w/sim"}, AnalysesUpTo(MaxAnalyses), OceanParts)

\* the results directory of the configurations that have one
ResultsDir == "/w/sim/amp/spectre/schematic"

\* the simulation path: not there, a directory without or with the results
\* directory under it, or a regular file
OceanDisks ==
    {[fs |-> Installed, dirs |-> {}],
     [fs |-> Installed \cup {"/w/sim"}, dirs |-> {"/w/sim"}],
     [fs |-> Installed \cup {ResultsDir} \cup Parents(ResultsDir),
      dirs |-> {ResultsDir} \cup Parents(ResultsDir)],
     [fs |-> Installed \cup {"/w/sim"}, dirs |-> {}]}

\* a generator constructed on one of the configurations, with the templates
\* and the disk given
InitGenerator(configs, templates, disks) ==
    /\ task_yaml = EmptyMap
    /\ testbench_yaml = EmptyMap
    /\ testbench_parses = TRUE
    /\ system_yaml = EmptyMap
    /\ \E d \in disks : fs = d.fs /\ dirs = d.dirs
    /\ files = EmptyMap
    /\ reader = ReaderObject("none", EmptyMap, EmptyMap, EmptyMap)
    /\ config \in configs
    /\ outcome = NoOutcome
    /\ tool = EDATool("", <<>>, <<>>)
    /\ commands = NoCommands
    /\ analysis_templates \in templates
    /\ script_content = <<>>
    /\ script = <<>>
    /\ SessionIdle

\* an OceanScriptGenerator constructed on a configuration
InitOcean == InitGenerator(OceanConfigs, SUBSET {"tran", "dc"}, OceanDisks)

NextOcean == GenerateScript

SpecOcean == InitOcean /\ [][NextOcean]_vars

-----------------------------------------------------------------------------
(* The order of the fragments *)

\* the kinds of fragment in the order the script is to have them
FragmentOrder ==
    <<"header", "simulator", "design", "results_dir", "model_file",
      "stimulus", "design_variables", "analyses", "save_nodes",
      "initial_conditions", "environment", "run", "post_processing">>

\* the kind of a fragment: that of its template, and "analyses" for the
\* template of an analysis type and for the generic analysis text
Kind(fragment) ==
    IF "template" \in DOMAIN fragment
    THEN IF startswith(fragment.template, "analysis_") THEN "analyses"
         ELSE fragment.template
    ELSE IF Contains(fragment.text, " analysis configuration\nanalysis('")
         THEN "analyses" ELSE "text"

\* the place of a kind in FragmentOrder; 0 for a kind that is not in it
Rank(kind) ==
    IF \E i \in DOMAIN FragmentOrder : FragmentOrder[i] = kind
    THEN CHOOSE i \in DOMAIN FragmentOrder : FragmentOrder[i] = kind
    ELSE 0

\* how many fragments of a kind a script has
Count(content, kind) ==
    Cardinality({i \in DOMAIN content : Kind(content[i]) = kind})

\* C10: the fragments generate_script appends are of the thirteen kinds and
\* no fragment of a later kind precedes one of an earlier kind; when it
\* returns, the header, simulator, design, results-directory, environment
\* and run fragments are there once each and the document returned is made
\* of those fragments
C10_FragmentsInFixedOrder ==
    outcome.op = "generate_script" =>
        /\ \A i \in DOMAIN script_content : Rank(Kind(script_content[i])) > 0
        /\ \A i, j \in DOMAIN script_content :
              i < j => Rank(Kind(script_content[i]))
                       <= Rank(Kind(script_content[j]))
        /\ outcome.status = "ok" =>
              /\ \A kind \in {"header", "simulator", "design", "results_dir",
                              "environment", "run"} :
                    Count(script_content, kind) = 1
              /\ script = script_content

\* a script with every optional fragment and two analyses, the first from
\* its template and the second as generic text
C10_Witness ==
    /\ outcome.op = "generate_script"
    /\ outcome.status = "ok"
    /\ Len(script) = 14
    /\ Count(script, "analyses") = 2
    /\ "template" \in DOMAIN script[8]
    /\ "text" \in DOMAIN script[9]
    /\ Kind(script[10]) = "save_nodes"
    /\ Kind(script[14]) = "post_processing"

-----------------------------------------------------------------------------
(* The optional fragments *)

\* the optional fragments the claim names, each with the emptiness of the
\* part of the configuration it renders
OptionalParts(c) ==
    {<<"stimulus", c.stimulus_files = <<>> >>,
     <<"design_variables", c.design_variables = <<>> >>,
     <<"save_nodes", c.save_nodes = <<>> >>,
     <<"initial_conditions", c.initial_conditions = <<>> >>,
     <<"post_processing", c.post_processing = EmptyMap>>}

\* C11: in the script generate_script returns, the stimulus, design-variable,
\* save-node, initial-condition and post-processing fragments are each there
\* (once) if and only if the part of the configuration they render is
\* non-empty
C11_OptionalFragmentsIffConfigured ==
    (outcome.op = "generate_script" /\ outcome.status = "ok") =>
        \A part \in OptionalParts(config) :
            Count(script, part[1]) = IF part[2] THEN 0 ELSE 1

\* a script returned for a configuration with stimulus files and initial
\* conditions but without variables, save nodes and post-processing
C11_Witness ==
    /\ outcome.op = "generate_script"
    /\ outcome.status = "ok"
    /\ config.stimulus_files # <<>>
    /\ config.initial_conditions # <<>>
    /\ config.design_variables = <<>>
    /\ config.save_nodes = <<>>
    /\ config.post_processing = EmptyMap
    /\ Count(script, "stimulus") = 1
    /\ Count(script, "initial_conditions") = 1
    /\ Count(script, "save_nodes") = 0

-----------------------------------------------------------------------------
(* The analysis blocks *)

\* the positions of the analysis blocks in a script
AnalysisPositions(content) ==
    {i \in DOMAIN content : Kind(content[i]) = "analyses"}

\* the analysis type a block is for: the one its template is named after,
\* or the one the generic text opens with
BlockIsFor(fragment, analysis_type) ==
    IF "template" \in DOMAIN fragment
    THEN fragment.template = "analysis_" \o analysis_type
    ELSE startswith(fragment.text,
                    "; " \o upper(analysis_type)
                    \o " analysis configuration\nanalysis('"
                    \o analysis_type \o "\n")

\* C12: the script generate_script returns for a configuration with n
\* analyses has exactly n analysis blocks, and the k-th block is the block of
\* the k-th analysis declared: rendered from its template where the type has
\* one, the generic text otherwise
C12_OneBlockPerAnalysisInOrder ==
    (outcome.op = "generate_script" /\ outcome.status = "ok") =>
        /\ Cardinality(AnalysisPositions(script)) = Len(config.analyses)
        /\ \A k \in DOMAIN config.analyses :
              LET block == script[Nth(AnalysisPositions(script), k)]
                  analysis_type == config.analyses[k][1]
              IN  /\ BlockIsFor(block, analysis_type)
                  /\ ("template" \in DOMAIN block)
                     <=> (analysis_type \in analysis_templates)

\* a script for the analyses dc then tran, dc from its template and tran as
\* generic text
C12_Witness ==
    /\ outcome.op = "generate_script"
    /\ outcome.status = "ok"
    /\ Len(config.analyses) = 2
    /\ config.analyses[1][1] = "dc"
    /\ config.analyses[2][1] = "tran"
    /\ analysis_templates = {"dc"}
    /\ Cardinality(AnalysisPositions(script)) = 2
    /\ BlockIsFor(script[Nth(AnalysisPositions(script), 1)], "dc")
    /\ BlockIsFor(script[Nth(AnalysisPositions(script), 2)], "tran")

-----------------------------------------------------------------------------
(* The generic analysis block *)

\* the lines of a text, each without the "\n" that ends it
RECURSIVE Lines(_, _)
Lines(text, line) ==
    IF text = "" THEN IF line = "" THEN <<>> ELSE <<line>>
    ELSE IF SubSeq(text, 1, 1) = "\n"
    THEN <<line>> \o Lines(SubSeq(text, 2, Len(text)), "")
    ELSE Lines(SubSeq(text, 2, Len(text)), line \o SubSeq(text, 1, 1))

\* the analyses of the configuration whose type has no template
Untemplated ==
    {k \in DOMAIN config.analyses :
        config.analyses[k][1] \notin analysis_templates}

\* C13: generate_script returns for a configuration with an analysis whose
\* type has no template whenever it returns for the configuration without
\* it (only the results directory can stop it), and the block of such an
\* analysis is generic text with one line per parameter, in declaration
\* order, between the two opening lines and the closing one: the parameter
\* name, then its value in double quotes when the value is a string and bare
\* otherwise
C13_GenericBlockListsParameters ==
    outcome.op = "generate_script" =>
        /\ outcome.status = "ok"
           <=> mkdir(results_dir(config), fs, dirs).status = "ok"
        /\ outcome.status = "ok" =>
              \A k \in Untemplated :
                  LET block == script[Nth(AnalysisPositions(script), k)]
                      params == config.analyses[k][2]
                      lines == Lines(block.text, "")
                  IN  /\ "text" \in DOMAIN block
                      /\ Len(lines) = Len(params) + 3
                      /\ lines[Len(lines)] = ")"
                      /\ \A p \in DOMAIN params :
                            lines[p + 2]
                            = "         ?" \o params[p][1] \o " "
                              \o (IF params[p][2].str
                                  THEN "\"" \o params[p][2].repr \o "\""
                                  ELSE params[p][2].repr)

\* a script whose only analysis is noise, without a template: its block
\* lists the number bare and the string quoted
C13_Witness ==
    /\ outcome.op = "generate_script"
    /\ outcome.status = "ok"
    /\ Len(config.analyses) = 1
    /\ config.analyses[1] = NoiseAnalysis
    /\ \E i \in DOMAIN script :
          /\ "text" \in DOMAIN script[i]
          /\ Lines(script[i].text, "")
             = <<"; NOISE analysis configuration", "analysis('noise",
                 "         ?start 1", "         ?oprobe \"/out\"", ")">>

-----------------------------------------------------------------------------
(* ocean_generator.py: save_script *)

\* os.linesep with carriage returns, as text files have on Windows
os_linesep_crlf == "\r\n"

\* os.linesep: the program writes POSIX shell wrappers and sets POSIX modes
os_linesep == "\n"

\* what a file opened in text mode with the default newline writes for a
\* string: os.linesep for each "\n" (the characters of the model encode to
\* themselves in UTF-8)
RECURSIVE TranslateNewlines(_)
TranslateNewlines(text) ==
    IF text = "" THEN ""
    ELSE IF Len(text) = 1
    THEN IF text = "\n" THEN os_linesep ELSE text
    ELSE The({TranslateNewlines(SubSeq(text, 1, half))
              \o TranslateNewlines(SubSeq(text, half + 1, Len(text))) :
              half \in {Len(text) \div 2}})

\* f.write('\n'.join(content)): the fragments, the generic text among them
\* with its line ends as written, and what is written between two fragments
Written(content) ==
    [joined_by |-> TranslateNewlines("\n"),
     fragments |-> [i \in DOMAIN content |->
                      IF "text" \in DOMAIN content[i]
                      THEN [text |-> TranslateNewlines(content[i].text)]
                      ELSE content[i]]]

\* the directory the program runs in
Cwd == "/w"

\* Path.absolute
absolute(p) == IF startswith(p, "/") THEN p ELSE Cwd \o "/" \o p

\* open(path, 'w') and f.write(content) once the parent directory is there:
\* a directory cannot be opened; an existing file keeps its mode
open_w(path, content, paths, directories, written) ==
    IF path \in directories
    THEN [status |-> "OSError", fs |-> paths, files |-> written]
    ELSE [status |-> "ok", fs |-> paths \cup {path},
          files |-> [f \in DOMAIN written \cup {path} |->
                       IF f = path
                       THEN [content |-> content,
                             executable |-> IF path \in DOMAIN written
                                            THEN written[path].executable
                                            ELSE FALSE]
                       ELSE written[f]]]

\* what save_script leaves: how it ended, the path returned,
\* script_content and the disk
Saved(status, returned, content, paths, directories, written) ==
    [status |-> status, returned |-> returned, script_content |-> content,
     fs |-> paths, dirs |-> directories, files |-> written]

\* OceanScriptGenerator.save_script
save_script(c, templates, paths, directories, written, output_file) ==
    The({IF g.status # "ok"
         THEN Saved(g.status, "", g.script_content, g.fs, g.dirs, written)
         ELSE The({IF parent.status # "ok"
                   THEN Saved(parent.status, "", g.script_content,
                              g.fs, g.dirs, written)
                   ELSE The({IF f.status # "ok"
                             THEN Saved(f.status, "", g.script_content,
                                        parent.fs, parent.dirs, written)
                             ELSE Saved("ok", absolute(output_file),
                                        g.script_content,
                                        f.fs, parent.dirs, f.files) :
                             f \in {open_w(output_file,
                                           Written(g.script_content),
                                           parent.fs, parent.dirs,
                                           written)}}) :
                   parent \in {mkdir(dirname(output_file), g.fs, g.dirs)}}) :
         g \in {generate_script(c, templates, paths, directories)}})

\* where scripts are saved: in a directory to be made, in the directory the
\* program runs in, under a regular file, and at the results directory
OutputFiles ==
    {"/w/out/run.ocn", "run.ocn", TaskFile \o "/run.ocn", ResultsDir}

\* path = generator.save_script(output_file)
SaveScript ==
    \E output_file \in OutputFiles :
        \E s \in {save_script(config, analysis_templates, fs, dirs, files,
                             output_file)} :
            /\ script_content' = script_content_reset(script_content)
                                  \o s.script_content
            /\ fs' = s.fs
            /\ dirs' = s.dirs
            /\ files' = s.files
            /\ outcome' = [op |-> "save_script", output_file |-> output_file,
                           returned |-> s.returned]
                          @@ Result(s.status, config, <<>>, <<>>)
            /\ UNCHANGED <<session, documents, reader, config, tool_state,
                           analysis_templates, script>>

\* the optional parts all empty or all set
SaveParts ==
    {parts \in OceanParts :
        \/ \A k \in DOMAIN parts : parts[k] \in {<<>>, EmptyMap}
        \/ \A k \in DOMAIN parts : parts[k] \notin {<<>>, EmptyMap}}

\* a generator that generates and saves scripts; tran has a template
InitSave ==
    InitGenerator(OceanConfigsOn({"", "/w/sim"}, AnalysesUpTo(MaxAnalyses),
                                 SaveParts),
                  {{"tran"}}, OceanDisks)

NextSave == GenerateScript \/ SaveScript

SpecSave == InitSave /\ [][NextSave]_vars

-----------------------------------------------------------------------------
(* Saving a script *)

\* what reading a file back gives: its bytes decoded as UTF-8, line ends
\* untouched
ReadBack(path) == files[path].content

\* the string '\n'.join(content)
Joined(content) == [joined_by |-> "\n", fragments |-> content]

-----------------------------------------------------------------------------
(* The results directory *)

\* C15: every generate_script and save_script that returns normally leaves
\* the directory Path(results_dir) names on disk as a directory, and takes
\* away no directory that was there before: the results directory is made
\* when it was absent and left in place when it was there
C15_ResultsDirExistsAfterGeneration ==
    [][(outcome'.op \in {"generate_script", "save_script"}
        /\ outcome'.status = "ok")
       => /\ is_dir(Path(results_dir(config')), dirs')
          /\ dirs \subseteq dirs'
          /\ fs \subseteq fs']_vars

\* generate_script has returned and made the results directory and the
\* directories above it
C15_Witness ==
    /\ outcome.op = "generate_script"
    /\ outcome.status = "ok"
    /\ results_dir(config) = ResultsDir
    /\ {ResultsDir, "/w/sim/amp/spectre", "/w/sim/amp", "/w/sim"}
       \subseteq dirs
    /\ files = EmptyMap

-----------------------------------------------------------------------------
(* shell_generator.py: ShellScriptGenerator *)

\* the attributes a ShellScriptGenerator has: those __init__ sets and the
\* methods the class defines
ShellScriptGeneratorAttributes ==
    {"config", "templates_dir", "env", "_load_template",
     "generate_shell_script", "generate_netlist_script",
     "_prepare_netlist_template_variables",
     "generate_complete_simulation_package", "generate_batch_script"}

\* the attribute lookup self.<name>: AttributeError for a name the object
\* does not have
hasattr(name) == name \in ShellScriptGeneratorAttributes

\* the output directory when none is given
default_output_dir == "scripts"

\* os.chmod(path, 0o755) on a file the program wrote
chmod_executable(written, path) ==
    [written EXCEPT ![path].executable = TRUE]

\* what a ShellScriptGenerator operation leaves: how it ended, what it
\* returned and the disk
Shelled(status, returned, paths, directories, written) ==
    [status |-> status, returned |-> returned,
     fs |-> paths, dirs |-> directories, files |-> written]

\* ShellScriptGenerator.generate_shell_script
generate_shell_script(c, paths, directories, written, script_type, target_script_path, output_dir) ==
    LET tool_config == get_tool_config(c.eda_tools, c.simulator)
        output_path == IF output_dir = "" THEN default_output_dir
                       ELSE output_dir
        shell_script_path ==
            join(output_path,
                 "run_" \o project_name(c) \o "_" \o script_type \o ".sh")
        rendered ==
            Fragment("main_script.sh",
                     [script_type |-> script_type,
                      target_script_path |-> target_script_path,
                      tool_config |-> tool_config.tool])
    IN  IF tool_config.kind = "none"
        THEN Shelled("ValueError", "", paths, directories, written)
        ELSE The({IF made.status # "ok"
                  THEN Shelled(made.status, "", paths, directories, written)
                  ELSE IF ~hasattr("_prepare_template_variables")
                  THEN Shelled("AttributeError", "",
                               made.fs, made.dirs, written)
                  ELSE The({IF f.status # "ok"
                            THEN Shelled(f.status, "",
                                         made.fs, made.dirs, written)
                            ELSE Shelled("ok", absolute(shell_script_path),
                                         f.fs, made.dirs,
                                         chmod_executable(
                                             f.files, shell_script_path)) :
                            f \in {open_w(shell_script_path, rendered,
                                          made.fs, made.dirs, written)}}) :
                  made \in {mkdir(output_path, paths, directories)}})

\* what generate_complete_simulation_package returns when it returns
NoPaths == [simulation_script |-> "", shell_script |-> ""]

\* ShellScriptGenerator.generate_complete_simulation_package: the script is
\* saved by an OceanScriptGenerator of its own
generate_complete_simulation_package(c, templates, paths, directories, written, script_type, output_dir) ==
    LET output_path == IF output_dir = "" THEN default_output_dir
                       ELSE output_dir
        target_script_name == project_name(c) \o ".ocn"
    IN  The({IF made.status # "ok"
             THEN Shelled(made.status, NoPaths, paths, directories, written)
             ELSE IF script_type # "ocean"
             THEN Shelled("ValueError", NoPaths,
                          made.fs, made.dirs, written)
             ELSE The({IF ocean.status # "ok"
                       THEN Shelled(ocean.status, NoPaths,
                                    ocean.fs, ocean.dirs, ocean.files)
                       ELSE The({IF shell.status # "ok"
                                 THEN Shelled(shell.status, NoPaths, shell.fs,
                                              shell.dirs, shell.files)
                                 ELSE Shelled("ok",
                                              [simulation_script |->
                                                   ocean.returned,
                                               shell_script |->
                                                   shell.returned],
                                              shell.fs, shell.dirs,
                                              shell.files) :
                                 shell \in {generate_shell_script(
                                                c, ocean.fs, ocean.dirs,
                                                ocean.files, script_type,
                                                target_script_name,
                                                output_path)}}) :
                       ocean \in {save_script(
                                      c, templates, made.fs, made.dirs,
                                      written,
                                      join(output_path,
                                           target_script_name))}}) :
             made \in {mkdir(output_path, paths, directories)}})

\* where packages are written: the default directory, a directory to be
\* made, and under a regular file
OutputDirs == {"", "/w/out", TaskFile \o "/out"}

\* paths = generator.generate_complete_simulation_package(script_type,
\*                                                        output_dir)
GenerateCompleteSimulationPackage ==
    \E script_type \in {"ocean", "python"}, output_dir \in OutputDirs :
        \E p \in {generate_complete_simulation_package(
                      config, analysis_templates, fs, dirs, files,
                      script_type, output_dir)} :
            /\ fs' = p.fs
            /\ dirs' = p.dirs
            /\ files' = p.files
            /\ outcome' = [op |-> "generate_complete_simulation_package",
                           script_type |-> script_type,
                           output_dir |-> output_dir,
                           returned |-> p.returned]
                          @@ Result(p.status, config, <<>>, <<>>)
            /\ UNCHANGED <<session, documents, reader, config, tool_state,
                           generator_state>>

\* path = generator.generate_shell_script(script_type, target_script_path,
\*                                        output_dir)
GenerateShellScript ==
    \E output_dir \in OutputDirs :
        \E p \in {generate_shell_script(config, fs, dirs, files, "ocean",
                                        project_name(config) \o ".ocn",
                                        output_dir)} :
            /\ fs' = p.fs
            /\ dirs' = p.dirs
            /\ files' = p.files
            /\ outcome' = [op |-> "generate_shell_script",
                           output_dir |-> output_dir,
                           returned |-> p.returned]
                          @@ Result(p.status, config, <<>>, <<>>)
            /\ UNCHANGED <<session, documents, reader, config, tool_state,
                           generator_state>>

\* the tools of a configuration: as constructed, and spectre as the system
\* configuration sets it
PackageTools ==
    {EDASToolsConfig,
     [EDASToolsConfig EXCEPT
        !.spectre = EDATool("spectre", <<"+aps">>,
                            <<"source /opt/setup.sh", "export FOO=bar">>)]}

\* configurations for a package: a simulator with and without a tool entry
PackageConfigs ==
    {[c EXCEPT !.simulator = simulator, !.eda_tools = eda_tools] :
        c \in OceanConfigsOn({"", "/w/sim"}, AnalysesUpTo(1), SaveParts),
        simulator \in {"spectre", "virtuoso", "hspice", "get_tool_config"},
        eda_tools \in PackageTools}

\* a ShellScriptGenerator constructed on a configuration
InitPackage ==
    InitGenerator(PackageConfigs, {{"tran"}},
                  {d \in OceanDisks : Cardinality(d.dirs) < 2})

NextPackage == GenerateCompleteSimulationPackage \/ GenerateShellScript

SpecPackage == InitPackage /\ [][NextPackage]_vars

-----------------------------------------------------------------------------
(* The complete package *)

\* the directory a package is written to
PackageDir(output_dir) ==
    IF output_dir = "" THEN default_output_dir ELSE output_dir

\* the output directory and the results directory can be made on the disk
DirectoriesCanBeMade(output_dir) ==
    /\ mkdir(PackageDir(output_dir), fs, dirs).status = "ok"
    /\ mkdir(results_dir(config), fs, dirs).status = "ok"

\* C16: for a configuration whose eda_tools has a tool for the selected
\* simulator, on a disk where the directories can be made,
\* generate_complete_simulation_package(script_type='ocean') returns the
\* paths of the simulation script and of the shell wrapper, both files are
\* there afterwards and the wrapper is executable
C16_PackageWritesScriptAndWrapper ==
    [][\A output_dir \in OutputDirs :
         (/\ outcome'.op = "generate_complete_simulation_package"
          /\ outcome'.script_type = "ocean"
          /\ outcome'.output_dir = output_dir
          /\ get_tool_config(config.eda_tools, config.simulator).kind = "tool"
          /\ DirectoriesCanBeMade(output_dir))
         => /\ outcome'.status = "ok"
            /\ outcome'.returned.simulation_script
               = absolute(join(PackageDir(output_dir),
                               project_name(config) \o ".ocn"))
            /\ outcome'.returned.shell_script
               = absolute(join(PackageDir(output_dir),
                               "run_" \o project_name(config) \o "_ocean.sh"))
            /\ \A k \in DOMAIN outcome'.returned :
                  \E f \in DOMAIN files' \cap (fs' \ dirs') :
                      absolute(f) = outcome'.returned[k]
            /\ \E f \in DOMAIN files' :
                  /\ absolute(f) = outcome'.returned.shell_script
                  /\ files'[f].executable]_vars


-----------------------------------------------------------------------------
(* simulation_manager.py: the SimulationManager *)

\* load_simulation_configuration that stores the configuration read before
\* it is validated
load_simulation_configuration_unvalidated(m, config_file) ==
    LET r == ConfigReader(config_file)
        l == load_task_config(r)
    IN  [status |-> l.status,
         manager |-> IF r.status = "ok"
                     THEN [m EXCEPT !.loaded = TRUE,
                                    !.config = get_simulation_config(r)]
                     ELSE m]

\* SimulationManager.load_simulation_configuration: the reader's error is
\* printed and raised again
load_simulation_configuration(m, config_file) ==
    LET l == load_task_config(ConfigReader(config_file))
    IN  [status |-> l.status,
         manager |-> IF l.status = "ok"
                     THEN [m EXCEPT !.loaded = TRUE, !.config = l.config]
                     ELSE m]

\* SimulationManager.generate_complete_scripts: the package goes to
\* output_dir, or to scripts under the work directory
generate_complete_scripts(m, templates, paths, directories, written, output_dir) ==
    IF ~m.loaded
    THEN Shelled("ValueError", NoPaths, paths, directories, written)
    ELSE generate_complete_simulation_package(
             m.config, templates, paths, directories, written, "ocean",
             IF output_dir = "" THEN join(m.work_dir, "scripts")
             ELSE output_dir)

\* how subprocess.run(['bash', wrapper], timeout=timeout) can end: the exit
\* code of the wrapper, TimeoutExpired, or the OSError of a failed spawn
WrapperRuns == {"exit 0", "exit 1", "TimeoutExpired", "OSError"}

\* what run_simulation_package leaves: how it ended, what it returned, how
\* the generation and the wrapper ended, and the disk
Ran(status, success, generation, wrapper, paths, directories, written) ==
    [status |-> status, success |-> success, generation |-> generation,
     wrapper |-> wrapper,
     fs |-> paths, dirs |-> directories, files |-> written]

\* run_simulation_package that lets the error of the generation through
run_simulation_package_raising(m, templates, paths, directories, written, wrapper) ==
    IF ~m.loaded
    THEN Ran("ValueError", FALSE, "none", "not spawned",
             paths, directories, written)
    ELSE The({IF g.status # "ok"
              THEN Ran(g.status, FALSE, g.status, "not spawned",
                       g.fs, g.dirs, g.files)
              ELSE Ran("ok", wrapper = "exit 0", "ok", wrapper,
                       g.fs, g.dirs, g.files) :
              g \in {generate_complete_scripts(m, templates, paths,
                                               directories, written, "")}})

\* SimulationManager.run_simulation_package, the wrapper ending as given
\* once it is spawned: every exception of the generation and of the run is
\* caught and answered with False
run_simulation_package(m, templates, paths, directories, written, wrapper) ==
    IF ~m.loaded
    THEN Ran("ValueError", FALSE, "none", "not spawned",
             paths, directories, written)
    ELSE The({IF g.status # "ok"
              THEN Ran("ok", FALSE, g.status, "not spawned",
                       g.fs, g.dirs, g.files)
              ELSE Ran("ok", wrapper = "exit 0", "ok", wrapper,
                       g.fs, g.dirs, g.files) :
              g \in {generate_complete_scripts(m, templates, paths,
                                               directories, written, "")}})

\* manager.load_simulation_configuration(config_file)
LoadSimulationConfiguration ==
    \E config_file \in ConfigFiles :
        \E l \in {load_simulation_configuration(manager, config_file)} :
            /\ manager' = l.manager
            /\ outcome' = [op |-> "load_simulation_configuration"]
                          @@ Result(l.status, l.manager.config, <<>>, <<>>)
            /\ UNCHANGED <<execution, disk, documents, reader, config,
                           tool_state, generator_state>>

\* paths = manager.generate_complete_scripts(output_dir)
GenerateCompleteScripts ==
    \E output_dir \in OutputDirs :
        \E p \in {generate_complete_scripts(manager, analysis_templates,
                                            fs, dirs, files, output_dir)} :
            /\ fs' = p.fs
            /\ dirs' = p.dirs
            /\ files' = p.files
            /\ outcome' = [op |-> "generate_complete_scripts",
                           output_dir |-> output_dir,
                           returned |-> p.returned]
                          @@ Result(p.status, manager.config, <<>>, <<>>)
            /\ UNCHANGED <<session, documents, reader, config, tool_state,
                           generator_state>>

\* success = manager.run_simulation_package(timeout)
RunSimulationPackage ==
    \E wrapper \in WrapperRuns :
        \E r \in {run_simulation_package(manager, analysis_templates,
                                         fs, dirs, files, wrapper)} :
            /\ fs' = r.fs
            /\ dirs' = r.dirs
            /\ files' = r.files
            /\ outcome' = [op |-> "run_simulation_package",
                           loaded |-> manager.loaded,
                           success |-> r.success,
                           generation |-> r.generation,
                           wrapper |-> r.wrapper]
                          @@ Result(r.status, manager.config, <<>>, <<>>)
            /\ UNCHANGED <<session, documents, reader, config, tool_state,
                           generator_state>>


\* task files of a session: complete, with a simulator that is not
\* supported, and without a simulation section
ManagerTasks ==
    {[simulation |-> [FullSimulation EXCEPT !.simulator = simulator],
      testbench_config |-> "tb.yaml"] : simulator \in {"spectre", "hspice"}}
    \cup {EmptyMap}

\* system configurations of a session: spectre with and without its
\* environment
ManagerSystems ==
    {d \in SystemDocuments :
        "eda_tools" \in DOMAIN d /\ "spectre" \in DOMAIN d["eda_tools"]}

\* the files a complete task names, with the directories they are in
DesignFiles == {"/w/tb.yaml", ModelFile, StimulusFile, DesignFile}

DesignTree ==
    LET above == {ProjectDir} \cup Parents(ProjectDir)
                 \cup UNION {Parents(f) : f \in DesignFiles}
    IN  [fs |-> DesignFiles \cup above, dirs |-> above]

\* the disks of a session: the design there or not, and the work directory
\* not there, there with its scripts directory, or a regular file
ManagerDisks ==
    {[fs |-> Installed \cup design.fs \cup work.fs,
      dirs |-> design.dirs \cup work.dirs] :
        design \in {DesignTree,
                    [fs |-> {ProjectDir, "/w", "/w/tb.yaml"},
                     dirs |-> {ProjectDir, "/w"}]},
        work \in {[fs |-> {}, dirs |-> {}],
                  [fs |-> {".sim_work", ".sim_work/scripts"},
                   dirs |-> {".sim_work", ".sim_work/scripts"}],
                  [fs |-> {".sim_work"}, dirs |-> {}]}}

\* a SimulationManager as constructed, on a task file, a system
\* configuration and a disk
InitManager ==
    /\ task_yaml \in ManagerTasks
    /\ testbench_yaml = FullTestbench
    /\ testbench_parses = TRUE
    /\ system_yaml \in ManagerSystems
    /\ \E d \in ManagerDisks : fs = d.fs /\ dirs = d.dirs
    /\ files = EmptyMap
    /\ reader = ReaderObject("none", EmptyMap, EmptyMap, EmptyMap)
    /\ config = SimulationConfig
    /\ outcome = NoOutcome
    /\ tool = EDATool("", <<>>, <<>>)
    /\ commands = NoCommands
    /\ analysis_templates \in {{}, {"tran"}}
    /\ script_content = <<>>
    /\ script = <<>>
    /\ SessionIdle

NextManager ==
    \/ LoadSimulationConfiguration
    \/ GenerateCompleteScripts
    \/ RunSimulationPackage

SpecManager == InitManager /\ [][NextManager]_vars

-----------------------------------------------------------------------------
(* Claim C17 *)

\* run_simulation_package has returned or raised on a loaded configuration
PackageRun ==
    outcome.op = "run_simulation_package" /\ outcome.loaded

-----------------------------------------------------------------------------
(* simulator.py: the SimulationExecutor *)

\* Path.mkdir(exist_ok=True): the parent has to be there
mkdir_exist_ok(path, paths, directories) ==
    IF path \in directories
    THEN [status |-> "ok", fs |-> paths, dirs |-> directories]
    ELSE IF path \in paths
    THEN [status |-> "FileExistsError", fs |-> paths, dirs |-> directories]
    ELSE IF ~is_dir(Path(dirname(path)), directories)
    THEN [status |-> "FileNotFoundError", fs |-> paths,
          dirs |-> directories]
    ELSE [status |-> "ok", fs |-> paths \cup {path},
          dirs |-> directories \cup {path}]

\* what SimulationExecutor(config, work_dir) leaves: how it ended, whether
\* the logger has its handlers, and the disk
Constructed(status, handlers, paths, directories) ==
    [status |-> status, handlers |-> handlers,
     fs |-> paths, dirs |-> directories]

\* SimulationExecutor.__init__: the work directory is made, then
\* _setup_logger opens the log file (its name carries the time), adds the
\* handlers when the logger has none and appends to self.log_files, which
\* __init__ sets only afterwards
SimulationExecutor(work_dir, handlers, paths, directories) ==
    LET made == mkdir(work_dir, paths, directories)
    IN  IF made.status # "ok"
        THEN Constructed(made.status, handlers, paths, directories)
        ELSE IF ~handlers
        THEN Constructed("AttributeError", TRUE,
                         made.fs \cup {join(work_dir, "simulation.log")},
                         made.dirs)
        ELSE Constructed("ok", TRUE, made.fs, made.dirs)

\* SimulationExecutor._create_work_directories
work_directories == <<"scripts", "results", "logs", "temp">>

\* _create_work_directories from the i-th directory on
RECURSIVE _create_work_directories(_, _, _, _)
_create_work_directories(work_dir, i, paths, directories) ==
    IF i > Len(work_directories)
    THEN [status |-> "ok", fs |-> paths, dirs |-> directories]
    ELSE The({IF made.status # "ok" THEN made
              ELSE _create_work_directories(work_dir, i + 1,
                                            made.fs, made.dirs) :
              made \in {mkdir_exist_ok(join(work_dir, work_directories[i]),
                                       paths, directories)}})

\* what prepare_simulation leaves: what it returned, the script path and
\* the disk
Prepared(success, path, content, paths, directories, written) ==
    [success |-> success, ocean_script_path |-> path,
     script_content |-> content,
     fs |-> paths, dirs |-> directories, files |-> written]

\* prepare_simulation that makes the work directories before it validates
prepare_simulation_directories_first(c, templates, paths, directories, written, work_dir) ==
    The({IF made.status # "ok"
         THEN Prepared(FALSE, "", <<>>, made.fs, made.dirs, written)
         ELSE The({IF errors.status # "ok" \/ errors.errors # <<>>
                   THEN Prepared(FALSE, "", <<>>,
                                 made.fs, made.dirs, written)
                   ELSE The({IF saved.status # "ok"
                             THEN Prepared(FALSE, "", saved.script_content,
                                           saved.fs, saved.dirs,
                                           saved.files)
                             ELSE Prepared(TRUE, saved.returned,
                                           saved.script_content,
                                           saved.fs, saved.dirs,
                                           saved.files) :
                             saved \in {save_script(
                                            c, templates, made.fs,
                                            made.dirs, written,
                                            join(join(work_dir, "scripts"),
                                                 project_name(c)
                                                     \o ".ocn"))}}) :
                   errors \in {validate_config(c)}}) :
         made \in {_create_work_directories(work_dir, 1, paths,
                                            directories)}})

\* SimulationExecutor.prepare_simulation: False when the configuration has
\* validation errors and when any step raises
prepare_simulation(c, templates, paths, directories, written, work_dir) ==
    The({IF errors.status # "ok" \/ errors.errors # <<>>
         THEN Prepared(FALSE, "", <<>>, paths, directories, written)
         ELSE The({IF made.status # "ok"
                   THEN Prepared(FALSE, "", <<>>,
                                 made.fs, made.dirs, written)
                   ELSE The({IF saved.status # "ok"
                             THEN Prepared(FALSE, "", saved.script_content,
                                           saved.fs, saved.dirs,
                                           saved.files)
                             ELSE Prepared(TRUE, saved.returned,
                                           saved.script_content,
                                           saved.fs, saved.dirs,
                                           saved.files) :
                             saved \in {save_script(
                                            c, templates, made.fs,
                                            made.dirs, written,
                                            join(join(work_dir, "scripts"),
                                                 project_name(c)
                                                     \o ".ocn"))}}) :
                   made \in {_create_work_directories(
                                 work_dir, 1, paths, directories)}}) :
         errors \in {validate_config(c)}})

\* '\n'.join(lines)
RECURSIVE NewlineJoin(_)
NewlineJoin(lines) ==
    IF lines = <<>> THEN ""
    ELSE IF Len(lines) = 1 THEN lines[1]
    ELSE lines[1] \o "\n" \o NewlineJoin(Tail(lines))

\* the timeouts a caller passes, in clock units
Timeouts == {1, 2}

\* the clock stops here
MaxClock == 3

\* run_ocean_simulation starts the simulator at most this many times
MaxRuns == 2

\* the simulator writes at most this many lines
MaxOutput == 2

\* a line of the simulator's output
OutputLine == "  tran done \n"

\* executor = SimulationExecutor(config, work_dir)
NewSimulationExecutor ==
    /\ executor.pc = "none"
    /\ \E e \in {SimulationExecutor(manager.work_dir, executor.handlers,
                                     fs, dirs)} :
        /\ fs' = e.fs
        /\ dirs' = e.dirs
        /\ executor' = [executor EXCEPT
                           !.handlers = e.handlers,
                           !.pc = IF e.status = "ok" THEN "constructed"
                                  ELSE @]
        /\ outcome' = [op |-> "SimulationExecutor"]
                      @@ Result(e.status, config, <<>>, <<>>)
    /\ UNCHANGED <<manager, simulation_process, clock, files, documents,
                   reader, config, tool_state, generator_state>>

\* executor.prepare_simulation()
PrepareSimulation ==
    /\ executor.pc = "constructed"
    /\ \E p \in {prepare_simulation(config, analysis_templates, fs, dirs,
                                    files, manager.work_dir)} :
        /\ fs' = p.fs
        /\ dirs' = p.dirs
        /\ files' = p.files
        /\ script_content' = p.script_content
        /\ executor' = [executor EXCEPT
                           !.prepared = TRUE,
                           !.ocean_script_path =
                               IF p.success THEN p.ocean_script_path ELSE @]
        /\ outcome' = [op |-> "prepare_simulation", success |-> p.success]
                      @@ Result("ok", config, <<>>, <<>>)
    /\ UNCHANGED <<manager, simulation_process, clock, documents, reader,
                   config, tool_state, analysis_templates, script>>

\* executor.run_ocean_simulation(timeout), up to subprocess.Popen: without
\* a script it returns at once; Popen raises when ocean cannot be started
RunOceanSimulation ==
    /\ \/ executor.pc = "constructed"
       \/ executor.pc = "returned" /\ executor.runs < MaxRuns
    /\ \E timeout \in Timeouts, spawned \in BOOLEAN :
        IF executor.ocean_script_path = ""
        THEN /\ executor' = [executor EXCEPT !.pc = "returned",
                                             !.timeout = timeout]
             /\ outcome' = [op |-> "run_ocean_simulation",
                            success |-> FALSE,
                            output |-> "Ocean script not generated"]
                           @@ Result("ok", config, <<>>, <<>>)
             /\ UNCHANGED simulation_process
        ELSE IF ~spawned
        THEN /\ executor' = [executor EXCEPT
                               !.pc = "returned", !.timeout = timeout,
                               !.start = clock, !.started = TRUE,
                               !.runs = @ + 1,
                               !.simulation_status =
                                   "Ocean simulation error"]
             /\ outcome' = [op |-> "run_ocean_simulation",
                            success |-> FALSE, output |-> "OSError"]
                           @@ Result("ok", config, <<>>, <<>>)
             /\ UNCHANGED simulation_process
        ELSE /\ executor' = [executor EXCEPT
                               !.pc = "reading", !.timeout = timeout,
                               !.start = clock, !.started = TRUE,
                               !.runs = @ + 1, !.output_lines = <<>>,
                               !.simulation_status =
                                   "Running Ocean simulation"]
             /\ simulation_process' =
                    [NoProcess EXCEPT !.state = "running",
                                      !.stdout = "open"]
             /\ UNCHANGED outcome
    /\ UNCHANGED <<manager, clock, disk, documents, reader, config,
                   tool_state, generator_state>>

\* one turn of the output loop: readline() waits for a line or for the end
\* of the output; the loop is left when the output has ended and poll()
\* finds the process exited
Readline ==
    /\ executor.pc = "reading"
    /\ \/ /\ simulation_process.pipe # <<>>
          /\ simulation_process' =
                 [simulation_process EXCEPT !.pipe = Tail(@)]
          /\ executor' =
                 [executor EXCEPT
                    !.output_lines =
                        Append(@, strip(Head(simulation_process.pipe)))]
       \/ /\ simulation_process.pipe = <<>>
          /\ simulation_process.stdout = "closed"
          /\ executor' =
                 IF simulation_process.state = "exited"
                 THEN [executor EXCEPT !.pc = "waiting",
                                       !.wait_from = clock]
                 ELSE executor
          /\ UNCHANGED simulation_process
    /\ UNCHANGED <<manager, clock, outcome, disk, documents, reader, config,
                   tool_state, generator_state>>

\* return_code = self.simulation_process.wait(timeout=timeout) and what
\* follows it: wait returns once the process has exited and raises
\* TimeoutExpired once timeout has gone by since it was called
Wait ==
    /\ executor.pc = "waiting"
    /\ \/ /\ simulation_process.state = "exited"
          /\ executor' =
                 [executor EXCEPT
                    !.pc = "returned",
                    !.end = clock, !.ended = TRUE, !.end_run = executor.runs,
                    !.simulation_status =
                        IF simulation_process.returncode = 0
                        THEN "Ocean simulation completed"
                        ELSE "Ocean simulation failed"]
          /\ outcome' = [op |-> "run_ocean_simulation",
                         success |-> simulation_process.returncode = 0,
                         output |-> NewlineJoin(executor.output_lines)]
                        @@ Result("ok", config, <<>>, <<>>)
          /\ UNCHANGED simulation_process
       \/ /\ simulation_process.state # "exited"
          /\ clock >= executor.wait_from + executor.timeout
          /\ executor' =
                 [executor EXCEPT
                    !.pc = "returned",
                    !.simulation_status = "Ocean simulation timeout"]
          /\ simulation_process' =
                 [simulation_process EXCEPT !.terminated = TRUE]
          /\ outcome' = [op |-> "run_ocean_simulation",
                         success |-> FALSE,
                         output |-> "Simulation timeout"]
                        @@ Result("ok", config, <<>>, <<>>)
    /\ UNCHANGED <<manager, clock, disk, documents, reader, config,
                   tool_state, generator_state>>

\* the simulator writes a line of output
ProcessWrites ==
    /\ simulation_process.state = "running"
    /\ simulation_process.stdout = "open"
    /\ simulation_process.written < MaxOutput
    /\ simulation_process' =
           [simulation_process EXCEPT !.pipe = Append(@, OutputLine),
                                      !.written = @ + 1]
    /\ UNCHANGED <<manager, executor, clock, outcome, disk, documents,
                   reader, config, tool_state, generator_state>>

\* the output ends: the simulator, and whatever it started with the same
\* output, has closed it
ProcessClosesOutput ==
    /\ simulation_process.state \in {"running", "exited"}
    /\ simulation_process.stdout = "open"
    /\ simulation_process' = [simulation_process EXCEPT !.stdout = "closed"]
    /\ UNCHANGED <<manager, executor, clock, outcome, disk, documents,
                   reader, config, tool_state, generator_state>>

\* the simulator exits
ProcessExits ==
    /\ simulation_process.state = "running"
    /\ \E returncode \in {0, 1} :
        simulation_process' =
            [simulation_process EXCEPT !.state = "exited",
                                       !.returncode = returncode]
    /\ UNCHANGED <<manager, executor, clock, outcome, disk, documents,
                   reader, config, tool_state, generator_state>>

\* SimulationExecutor.get_simulation_status: a time that is None is the
\* empty sequence, and the duration is there when both times are
get_simulation_status(e, c, work_dir) ==
    [status |-> e.simulation_status,
     start_time |-> IF e.started THEN <<e.start>> ELSE <<>>,
     end_time |-> IF e.ended THEN <<e.end>> ELSE <<>>,
     duration |-> IF e.started /\ e.ended THEN <<e.end - e.start>>
                  ELSE <<>>,
     work_dir |-> work_dir,
     ocean_script |-> e.ocean_script_path,
     log_files |-> <<>>,
     results_dir |-> results_dir(c),
     project_name |-> project_name(c)]

\* status = executor.get_simulation_status()
GetSimulationStatus ==
    /\ executor.pc \in {"constructed", "returned"}
    /\ outcome' = [op |-> "get_simulation_status",
                   status_info |-> get_simulation_status(
                                       executor, config, manager.work_dir)]
                  @@ Result("ok", config, <<>>, <<>>)
    /\ UNCHANGED <<session, disk, documents, reader, config, tool_state,
                   generator_state>>

\* time goes by
Tick ==
    /\ clock < MaxClock
    /\ clock' = clock + 1
    /\ UNCHANGED <<manager, executor, simulation_process, outcome, disk,
                   documents, reader, config, tool_state, generator_state>>

\* configurations of an executor: valid, without analyses, and without the
\* executable of the simulator
ExecutorConfigs ==
    {c \in PackageConfigs :
        c.simulator = "spectre" /\ c.simulation_path = "/w/sim"}

\* a configuration for which a SimulationExecutor is to be constructed
InitExecutor ==
    /\ task_yaml = EmptyMap
    /\ testbench_yaml = EmptyMap
    /\ testbench_parses = TRUE
    /\ system_yaml = EmptyMap
    /\ fs = Installed \cup DesignTree.fs
    /\ dirs = DesignTree.dirs
    /\ files = EmptyMap
    /\ reader = ReaderObject("none", EmptyMap, EmptyMap, EmptyMap)
    /\ config \in ExecutorConfigs
    /\ outcome = NoOutcome
    /\ tool = EDATool("", <<>>, <<>>)
    /\ commands = NoCommands
    /\ analysis_templates = {"tran"}
    /\ script_content = <<>>
    /\ script = <<>>
    /\ manager = [NoManager EXCEPT !.loaded = TRUE, !.config = config]
    /\ executor = NoExecutor
    /\ simulation_process = NoProcess
    /\ clock = 0

NextExecutor ==
    \/ NewSimulationExecutor
    \/ PrepareSimulation
    \/ RunOceanSimulation
    \/ Readline
    \/ Wait
    \/ ProcessWrites
    \/ ProcessClosesOutput
    \/ ProcessExits
    \/ GetSimulationStatus
    \/ Tick

SpecExecutor == InitExecutor /\ [][NextExecutor]_vars

\* the interpreter goes on whenever the call it is in can go on, and time
\* goes by; nothing makes the simulator write, close its output or exit
SpecExecutorLive ==
    SpecExecutor /\ WF_vars(Readline) /\ WF_vars(Wait) /\ WF_vars(Tick)


-----------------------------------------------------------------------------
(* Claim C18 *)

\* run_ocean_simulation is under way, the simulator has not exited, and the
\* timeout has gone by since the call began
TimeoutElapsed ==
    /\ executor.pc \in {"reading", "waiting"}
    /\ simulation_process.state = "running"
    /\ clock >= executor.start + executor.timeout

\* run_ocean_simulation has terminated the simulator, set the timeout
\* status and returned failure
TimeoutReported ==
    /\ executor.pc = "returned"
    /\ executor.simulation_status = "Ocean simulation timeout"
    /\ simulation_process.terminated
    /\ outcome.op = "run_ocean_simulation"
    /\ ~outcome.success

\* C18: when the simulator has not exited by the time the timeout has gone
\* by, run_ocean_simulation eventually terminates it, sets the status
\* "Ocean simulation timeout" and returns failure, also when the simulator
\* never exits and keeps its output open
C18_TimeoutTerminatesSimulation == TimeoutElapsed ~> TimeoutReported


-----------------------------------------------------------------------------
(* simulation_manager.py: the command line *)

\* OceanScriptGenerator.save_netlist_script: the path is returned as given
save_netlist_script(c, paths, directories, written, output_file) ==
    LET rendered ==
            Fragment("netlist_generation",
                     [simulator |-> c.simulator,
                      library_name |-> c.library_name,
                      cell_name |-> c.cell_name,
                      design_type |-> c.design_type])
    IN  The({IF parent.status # "ok"
             THEN Shelled(parent.status, "", paths, directories, written)
             ELSE The({IF f.status # "ok"
                       THEN Shelled(f.status, "",
                                    parent.fs, parent.dirs, written)
                       ELSE Shelled("ok", output_file,
                                    f.fs, parent.dirs, f.files) :
                       f \in {open_w(output_file, rendered,
                                     parent.fs, parent.dirs, written)}}) :
             parent \in {mkdir(dirname(output_file), paths, directories)}})

\* ShellScriptGenerator.generate_netlist_script
generate_netlist_script(c, paths, directories, written, output_dir) ==
    LET tool_config == get_tool_config(c.eda_tools, c.simulator)
        output_path == IF output_dir = "" THEN default_output_dir
                       ELSE output_dir
        netlist_script_path ==
            join(output_path, "run_" \o project_name(c) \o "_netlist.sh")
        rendered ==
            Fragment("netlist_script.sh",
                     [project_name |-> project_name(c),
                      simulator |-> c.simulator,
                      netlist_script_path |->
                          project_name(c) \o "_netlist.ocn",
                      design_path_dir |->
                          IF design_path(c) = "" THEN "."
                          ELSE dirname(design_path(c)),
                      source_commands |->
                          get_source_commands(tool_config.tool),
                      export_commands |->
                          get_export_commands(tool_config.tool),
                      ocean_cmd |->
                          IF c.simulator \in {"spectre", "virtuoso"}
                          THEN "ocean" ELSE c.simulator,
                      launch_args |-> tool_config.tool.launch_args])
    IN  IF tool_config.kind = "none"
        THEN Shelled("ValueError", "", paths, directories, written)
        ELSE The({IF made.status # "ok"
                  THEN Shelled(made.status, "", paths, directories, written)
                  ELSE IF tool_config.kind = "attribute"
                  THEN Shelled("AttributeError", "",
                               made.fs, made.dirs, written)
                  ELSE The({IF f.status # "ok"
                            THEN Shelled(f.status, "",
                                         made.fs, made.dirs, written)
                            ELSE Shelled("ok",
                                         absolute(netlist_script_path),
                                         f.fs, made.dirs,
                                         chmod_executable(
                                             f.files,
                                             netlist_script_path)) :
                            f \in {open_w(netlist_script_path, rendered,
                                          made.fs, made.dirs, written)}}) :
                  made \in {mkdir(output_path, paths, directories)}})

\* what an operation of the manager leaves: the exception it raised ("ok"
\* for none), the exception it caught and answered itself ("ok" for none),
\* whether it ended, what it returned when it returns a bool, and the disk
Managed(status, caught, ended, success, paths, directories, written) ==
    [status |-> status, caught |-> caught, ended |-> ended,
     success |-> success,
     fs |-> paths, dirs |-> directories, files |-> written]

\* SimulationManager._generate_netlist_script: any exception is printed as
\* a warning and the method returns
_generate_netlist_script(m, paths, directories, written, work_dir) ==
    LET work_path == IF work_dir = "" THEN m.work_dir ELSE work_dir
    IN  IF ~m.loaded
        THEN Managed("ok", "ok", TRUE, TRUE, paths, directories, written)
        ELSE The({IF made.status # "ok"
                  THEN Managed("ok", made.status, TRUE, FALSE,
                               paths, directories, written)
                  ELSE The({Managed("ok", saved.status, TRUE,
                                    saved.status = "ok",
                                    saved.fs, saved.dirs, saved.files) :
                            saved \in {save_netlist_script(
                                           m.config, made.fs, made.dirs,
                                           written,
                                           join(work_path,
                                                "create_netlist.ocn"))}}) :
                  made \in {mkdir(work_path, paths, directories)}})

\* SimulationManager._generate_netlist_shell_script: any exception is
\* printed as a warning and the method returns
_generate_netlist_shell_script(m, paths, directories, written, work_dir) ==
    LET work_path == IF work_dir = "" THEN m.work_dir ELSE work_dir
    IN  IF ~m.loaded
        THEN Managed("ok", "ok", TRUE, TRUE, paths, directories, written)
        ELSE The({IF made.status # "ok"
                  THEN Managed("ok", made.status, TRUE, FALSE,
                               paths, directories, written)
                  ELSE The({Managed("ok", shell.status, TRUE,
                                    shell.status = "ok",
                                    shell.fs, shell.dirs, shell.files) :
                            shell \in {generate_netlist_script(
                                           m.config, made.fs, made.dirs,
                                           written, work_path)}}) :
                  made \in {mkdir(work_path, paths, directories)}})

\* how the simulator run_simulation starts can end: it is not started, it
\* exits, or it never exits
SimulatorRuns == {"OSError", "exit 0", "exit 1", "never exits"}

\* SimulationManager.run_simulation, the logger having handlers or not and
\* the simulator ending as given: the executor is constructed outside the
\* try; what prepare_simulation and run_ocean_simulation raise is caught
run_simulation(m, handlers, templates, paths, directories, written, work_dir, simulator) ==
    LET actual_work_dir == IF work_dir = "" THEN m.work_dir ELSE work_dir
    IN  IF ~m.loaded
        THEN Managed("ValueError", "ok", TRUE, FALSE,
                     paths, directories, written)
        ELSE The({IF e.status # "ok"
                  THEN Managed(e.status, "ok", TRUE, FALSE,
                               e.fs, e.dirs, written)
                  ELSE The({IF ~p.success
                            THEN Managed("ok", "ok", TRUE, FALSE,
                                         p.fs, p.dirs, p.files)
                            ELSE Managed("ok", "ok",
                                         simulator # "never exits",
                                         simulator = "exit 0",
                                         p.fs, p.dirs, p.files) :
                            p \in {prepare_simulation(
                                       m.config, templates, e.fs, e.dirs,
                                       written, actual_work_dir)}}) :
                  e \in {SimulationExecutor(actual_work_dir, handlers,
                                            paths, directories)}})

\* what the command leaves: the exit code once the process has ended, the
\* operation asked for, the exception raised while it ran ("ok" for none)
\* and whether it succeeded
Handled(ended, exit_code, operation, error, success, paths, directories, written) ==
    [ended |-> ended, exit_code |-> exit_code, operation |-> operation,
     error |-> error, success |-> success,
     fs |-> paths, dirs |-> directories, files |-> written]

\* the operation the command line asks for: the first of the options in
\* the order the handler looks at them
Operation(args) ==
    IF args.generate_netlist_script THEN "generate_netlist_script"
    ELSE IF args.generate_netlist_shell THEN "generate_netlist_shell"
    ELSE IF args.generate_only THEN "generate_only"
    ELSE IF args.run = "package" THEN "run_package"
    ELSE IF args.run = "ocean" THEN "run_ocean"
    ELSE "interactive"

\* handle_simulation_command_legacy for a command line that names a
\* configuration and an operation, in a process of its own: sys.exit(n)
\* ends the process with n, and a handler that returns lets it end with 0
handle_simulation_command_legacy(args, templates, paths, directories, written, wrapper, simulator) ==
    LET operation == Operation(args)
    IN  The({
        LET m == [l.manager EXCEPT !.work_dir = args.workdir]
        IN  IF l.status # "ok"
            THEN Handled(TRUE, 1, operation, l.status, FALSE,
                         paths, directories, written)
            ELSE IF operation = "generate_netlist_script"
            THEN The({Handled(TRUE, IF netlist.status = "ok" THEN 0 ELSE 1,
                              operation,
                              IF netlist.status = "ok" THEN netlist.caught
                              ELSE netlist.status,
                              netlist.success,
                              netlist.fs, netlist.dirs, netlist.files) :
                      netlist \in {_generate_netlist_script(
                                       m, paths, directories, written,
                                       args.workdir)}})
            ELSE IF operation = "generate_netlist_shell"
            THEN The({Handled(TRUE, IF shell.status = "ok" THEN 0 ELSE 1,
                              operation,
                              IF shell.status = "ok" THEN shell.caught
                              ELSE shell.status,
                              shell.success,
                              shell.fs, shell.dirs, shell.files) :
                      shell \in {_generate_netlist_shell_script(
                                     m, paths, directories, written,
                                     args.workdir)}})
            ELSE IF operation = "generate_only"
            THEN The({Handled(TRUE, IF scripts.status = "ok" THEN 0 ELSE 1,
                              operation, scripts.status,
                              scripts.status = "ok",
                              scripts.fs, scripts.dirs, scripts.files) :
                      scripts \in {generate_complete_scripts(
                                       m, templates, paths, directories,
                                       written, args.output)}})
            ELSE IF operation = "run_package"
            THEN The({Handled(TRUE,
                              IF package.status = "ok" /\ package.success
                              THEN 0 ELSE 1,
                              operation,
                              IF package.status # "ok" THEN package.status
                              ELSE IF package.generation # "ok"
                              THEN package.generation
                              ELSE IF package.wrapper
                                        \in {"TimeoutExpired", "OSError"}
                              THEN package.wrapper
                              ELSE "ok",
                              package.success,
                              package.fs, package.dirs, package.files) :
                      package \in {run_simulation_package(
                                       m, templates, paths, directories,
                                       written, wrapper)}})
            ELSE The({Handled(ocean.ended,
                              IF ocean.status = "ok" /\ ocean.success
                              THEN 0 ELSE 1,
                              operation, ocean.status, ocean.success,
                              ocean.fs, ocean.dirs, ocean.files) :
                      ocean \in {run_simulation(
                                     m, FALSE, templates, paths,
                                     directories, written, args.workdir,
                                     simulator)}}) :
        l \in {load_simulation_configuration(NoManager, args.config)}})

\* the work directories of a command line: the default, and under a regular
\* file
WorkDirs == {".sim_work", TaskFile \o "/work"}

\* the options of a command line
Options ==
    [generate_netlist_script : BOOLEAN,
     generate_netlist_shell : BOOLEAN,
     generate_only : BOOLEAN,
     run : {"", "ocean", "package"}]

\* the number of options a command line gives
Given(options) ==
    Cardinality({k \in {"generate_netlist_script", "generate_netlist_shell",
                        "generate_only"} : options[k]})
    + (IF options.run = "" THEN 0 ELSE 1)

\* the command lines: a configuration, a work directory, and one of the
\* options or all of them
CommandLines ==
    {[config |-> config_file, workdir |-> workdir, output |-> output]
     @@ options :
        config_file \in ConfigFiles, workdir \in WorkDirs,
        output \in {"", "/w/out"},
        options \in {o \in Options : Given(o) = 1
                                     \/ (Given(o) = 4 /\ o.run = "ocean")}}

\* python simulation_manager.py ... handled by
\* handle_simulation_command_legacy(args)
HandleSimulationCommandLegacy ==
    \E args \in CommandLines :
    \E wrapper \in IF Operation(args) = "run_package" THEN WrapperRuns
                   ELSE {"exit 0"},
       simulator \in IF Operation(args) = "run_ocean" THEN SimulatorRuns
                     ELSE {"exit 0"} :
        \E h \in {handle_simulation_command_legacy(
                      args, analysis_templates, fs, dirs, files,
                      wrapper, simulator)} :
            /\ fs' = h.fs
            /\ dirs' = h.dirs
            /\ files' = h.files
            /\ outcome' = [op |-> "handle_simulation_command_legacy",
                           args |-> args,
                           ended |-> h.ended,
                           exit_code |-> h.exit_code,
                           operation |-> h.operation,
                           error |-> h.error,
                           success |-> h.success]
                          @@ Result("ok", SimulationConfig, <<>>, <<>>)
            /\ UNCHANGED <<session, documents, reader, config, tool_state,
                           generator_state>>

NextCommand == HandleSimulationCommandLegacy

SpecCommand == InitManager /\ [][NextCommand]_vars


-----------------------------------------------------------------------------
(* Claim C19 *)

\* the command has run and its process has ended
CommandEnded ==
    outcome.op = "handle_simulation_command_legacy" /\ outcome.ended

\* C19: an error raised while the operation of a command line runs
\* (loading the configuration, generating the package, the netlist script
\* or the netlist shell script, running the simulation) makes the process
\* end with exit code 1, and the process ends with 0 only when the
\* operation succeeded
C19_ErrorsReachCommandLine ==
    CommandEnded =>
        /\ outcome.error # "ok" => outcome.exit_code = 1
        /\ outcome.exit_code = 0 => outcome.success


-----------------------------------------------------------------------------
(* Claim C20 *)

\* the simulation section of the task file the reader holds
TaskSimulation == Get(reader.task_config_data, "simulation", EmptyMap)

\* the environment section of the testbench file the reader holds
TestbenchEnvironment ==
    Get(reader.testbench_config_data, "environment", EmptyMap)

\* C20: when the task file and the testbench file both give the
\* temperature, the configuration get_simulation_config returns has the
\* temperature of the testbench, and likewise for the supply voltage
C20_TestbenchValueWins ==
    outcome.op = "get_simulation_config" =>
        /\ {"temperature"} \subseteq
               DOMAIN TaskSimulation \cap DOMAIN TestbenchEnvironment
             => config.temperature = TestbenchEnvironment["temperature"]
        /\ {"supply_voltage"} \subseteq
               DOMAIN TaskSimulation \cap DOMAIN TestbenchEnvironment
             => config.supply_voltage
                    = TestbenchEnvironment["supply_voltage"]

\* the task gives 50 degrees and 3.3 V, the testbench 85 degrees and 1.2 V,
\* and the configuration returned has the values of the testbench
C20_Witness ==
    /\ outcome.op = "get_simulation_config"
    /\ {"temperature", "supply_voltage"} \subseteq DOMAIN TaskSimulation
    /\ TaskSimulation["temperature"] = 50
    /\ TaskSimulation["supply_voltage"] = 33
    /\ TestbenchEnvironment = [temperature |-> 85, supply_voltage |-> 12]
    /\ config.temperature = 85
    /\ config.supply_voltage = 12

-----------------------------------------------------------------------------
(* Claim C21 *)

\* the temperature the task file gives the configuration (config.py line 263)
TaskTemperature == Get(TaskSimulation, "temperature", DefaultTemperature)

\* the supply voltage the task file gives the configuration (line 264)
TaskSupplyVoltage ==
    Get(TaskSimulation, "supply_voltage", DefaultSupplyVoltage)

\* the testbench file the reader holds has an environment section
HasEnvironment == "environment" \in DOMAIN reader.testbench_config_data

\* C21: when the testbench has an environment section without temperature,
\* the configuration get_simulation_config returns keeps the temperature of
\* the task file, and likewise for a section without supply_voltage
C21_OmittedEnvironmentKeyKeepsTaskValue ==
    outcome.op = "get_simulation_config" /\ HasEnvironment =>
        /\ "temperature" \notin DOMAIN TestbenchEnvironment
             => config.temperature = TaskTemperature
        /\ "supply_voltage" \notin DOMAIN TestbenchEnvironment
             => config.supply_voltage = TaskSupplyVoltage

-----------------------------------------------------------------------------
(* simulator.py: collect_results *)

\* str.endswith
endswith(s, tail) ==
    /\ Len(s) >= Len(tail)
    /\ SubSeq(s, Len(s) - Len(tail) + 1, Len(s)) = tail

\* PurePath.suffix read from the first dot of the name on, so that a name
\* that is only an extension has that extension
suffix_of_bare_extension(name) ==
    LET dot == LastDot(name, Len(name), 0)
    IN  IF 0 < dot /\ dot < Len(name)
        THEN SubSeq(name, dot, Len(name)) ELSE ""

\* PurePath.suffix of a file name: from the last dot on, unless that dot
\* is the first or the last character of the name
suffix(name) ==
    LET dot == LastDot(name, Len(name), 0)
    IN  IF 1 < dot /\ dot < Len(name)
        THEN SubSeq(name, dot, Len(name)) ELSE ""

\* fnmatch of a name against a pattern "*" followed by plain characters,
\* on a system whose file names are case-sensitive
fnmatch(name, pattern) == endswith(name, SubSeq(pattern, 2, Len(pattern)))

\* collect_results: the patterns searched for, in the order of the search
patterns ==
    <<"*.log", "*.out", "*.raw", "*.tr0", "*.ac0", "*.dc0", "*.png", "*.pdf">>

\* collect_results: the suffixes of the 'plots' bucket
plot_suffixes == {".png", ".pdf", ".jpg", ".jpeg"}

\* collect_results: the suffixes of the 'data' bucket
data_suffixes == {".raw", ".tr0", ".ac0", ".dc0"}

\* a path is below a directory; the paths below the current directory are
\* the relative ones
Under(root, p) ==
    IF root = "." THEN ~startswith(p, "/") /\ p # "."
    ELSE startswith(p, root \o "/")

\* Path(root).rglob(pattern): the paths below root whose name matches, in
\* the order the system lists them; nothing when root is not a directory
rglob(root, pattern, directories, listing) ==
    IF ~is_dir(root, directories) THEN <<>>
    ELSE SelectSeq(listing,
                   LAMBDA p : Under(root, p) /\ fnmatch(basename(p), pattern))

\* the bucket collect_results appends a path to
bucket(file_path) ==
    IF lower(suffix(basename(file_path))) \in plot_suffixes THEN "plots"
    ELSE IF lower(suffix(basename(file_path))) \in data_suffixes THEN "data"
    ELSE "files"

\* file_info: the path and the name (the disk of the model keeps no sizes
\* and no times)
file_info(file_path) == [path |-> file_path, name |-> basename(file_path)]

\* what the loops of collect_results append to one bucket, from the i-th
\* pattern on
RECURSIVE Appended(_, _, _, _, _)
Appended(name, i, root, directories, listing) ==
    IF i > Len(patterns) THEN <<>>
    ELSE [k \in DOMAIN SelectSeq(rglob(root, patterns[i], directories,
                                       listing),
                                 LAMBDA p : bucket(p) = name) |->
            file_info(SelectSeq(rglob(root, patterns[i], directories,
                                      listing),
                                LAMBDA p : bucket(p) = name)[k])]
         \o Appended(name, i + 1, root, directories, listing)

\* SimulationExecutor.collect_results on a disk that lists its paths in the
\* order of listing
collect_results(status, c, paths, directories, listing) ==
    LET root == Path(results_dir(c))
        there == root = "." \/ root \in paths
    IN  [status |-> status,
         files |-> IF there
                   THEN Appended("files", 1, root, directories, listing)
                   ELSE <<>>,
         plots |-> IF there
                   THEN Appended("plots", 1, root, directories, listing)
                   ELSE <<>>,
         data |-> IF there
                  THEN Appended("data", 1, root, directories, listing)
                  ELSE <<>>,
         logs |-> <<>>]

\* the orders in which a disk can list the paths of S
Listings(S) ==
    {l \in [1..Cardinality(S) -> S] : \A i, j \in DOMAIN l : l[i] = l[j] => i = j}

\* the paths of the disk that some pattern matches
Matched(paths) ==
    {p \in paths : \E i \in DOMAIN patterns : fnmatch(basename(p), patterns[i])}

\* results = executor.collect_results()
CollectResults ==
    /\ executor.pc \in {"constructed", "returned"}
    /\ \E listing \in Listings(Matched(fs)) :
        outcome' = [op |-> "collect_results",
                    results |-> collect_results(executor.simulation_status,
                                                config, fs, dirs, listing)]
                   @@ Result("ok", config, <<>>, <<>>)
    /\ UNCHANGED <<session, disk, documents, reader, config, tool_state,
                   generator_state>>

\* what a results directory can hold: a log, raw data and a picture below
\* it, an output file, a file named like an extension and a file no
\* pattern matches
ResultNames ==
    {"run.log", "psf/tran.raw", "psf/wave.png", "sim.out", ".pdf",
     "notes.txt"}

\* a directory with the given names below it
Tree(root, names) ==
    LET made == {join(root, n) : n \in names}
        above == UNION {Parents(p) : p \in made} \cup
                 (IF root = "" THEN {} ELSE {root})
    IN  [fs |-> Installed \cup made \cup above, dirs |-> above]

\* the results directory: not there, a regular file, or a directory with
\* some of the names; and the names in the current directory
ResultDisks ==
    {[fs |-> Installed, dirs |-> {}],
     [fs |-> Installed \cup {ResultsDir} \cup Parents(ResultsDir),
      dirs |-> Parents(ResultsDir)]}
    \cup {Tree(root, names) :
            root \in {ResultsDir, ""}, names \in SUBSET ResultNames}

\* an executor constructed on a configuration with or without a results
\* directory
InitResults ==
    /\ InitGenerator(OceanConfigsOn({"", "/w/sim"}, {<<>>},
                                    {[model_files |-> <<>>,
                                      stimulus_files |-> <<>>,
                                      design_variables |-> <<>>,
                                      save_nodes |-> <<>>,
                                      initial_conditions |-> <<>>,
                                      post_processing |-> EmptyMap]}),
                     {{}}, ResultDisks)

NextResults == NewSimulationExecutor \/ CollectResults

SpecResults == InitResults /\ [][NextResults]_vars

-----------------------------------------------------------------------------
(* Claim C22 *)

\* the buckets of a result
Buckets == {"files", "plots", "data"}

\* the extension by which a pattern of collect_results found a name
MatchedExtension(name) ==
    CHOOSE e \in {SubSeq(patterns[i], 2, Len(patterns[i])) :
                    i \in DOMAIN patterns} : endswith(name, e)

\* the bucket of an extension
BucketOf(extension) ==
    IF extension \in {".png", ".pdf"} THEN "plots"
    ELSE IF extension \in {".raw", ".tr0", ".ac0", ".dc0"} THEN "data"
    ELSE "files"

\* the result files there are to discover: the paths below the results
\* directory of the configuration that a pattern matches
Discovered ==
    {p \in Matched(fs) :
        /\ is_dir(Path(results_dir(config)), dirs)
        /\ Under(Path(results_dir(config)), p)}

\* how often a bucket of the result returned reports a path
Times(name, p) ==
    Cardinality({k \in DOMAIN outcome.results[name] :
                    outcome.results[name][k].path = p})

\* the result returned reports the discovered files and no others, each
\* once and in the bucket given
ReportedOnceIn(Bucket(_)) ==
    /\ \A p \in Discovered, name \in Buckets :
           Times(name, p) = IF name = Bucket(p) THEN 1 ELSE 0
    /\ \A name \in Buckets : \A k \in DOMAIN outcome.results[name] :
           /\ outcome.results[name][k].path \in Discovered
           /\ outcome.results[name][k].name
                  = basename(outcome.results[name][k].path)
    /\ ~exists(results_dir(config)) /\ results_dir(config) # ""
           => \A name \in Buckets : outcome.results[name] = <<>>

\* C22 as stated: collect_results reports every discovered file below the
\* results directory once, in the bucket of the extension it was found by
\* (.png and .pdf in plots, .raw, .tr0, .ac0 and .dc0 in data, .log and
\* .out in files), and reports nothing when the directory is not there
C22_BucketsByMatchedExtension ==
    outcome.op = "collect_results" =>
        ReportedOnceIn(LAMBDA p : BucketOf(MatchedExtension(basename(p))))

\* C22 amended: as stated, except that a file whose name is only an
\* extension (".pdf") has no suffix and is reported in files
C22_BucketsBySuffix ==
    outcome.op = "collect_results" =>
        ReportedOnceIn(LAMBDA p :
            IF basename(p) = MatchedExtension(basename(p)) THEN "files"
            ELSE BucketOf(MatchedExtension(basename(p))))

\* a results directory with a log, raw data, a picture and a file named
\* .pdf: all three buckets are filled and .pdf is among the files
C22_Witness ==
    /\ outcome.op = "collect_results"
    /\ results_dir(config) = ResultsDir
    /\ Times("plots", join(ResultsDir, "psf/wave.png")) = 1
    /\ Times("data", join(ResultsDir, "psf/tran.raw")) = 1
    /\ Times("files", join(ResultsDir, "run.log")) = 1
    /\ Times("files", join(ResultsDir, ".pdf")) = 1

-----------------------------------------------------------------------------
(* The configuration during generation *)

\* the configuration after generate_netlist_script: the generator holds the
\* configuration it was constructed on, and once the tool entry is found
\* and the output directory made, the two loops run over the environment
\* lines of that entry
config_after_netlist_script(c, paths, directories, output_dir) ==
    IF /\ get_tool_config(c.eda_tools, c.simulator).kind = "tool"
       /\ mkdir(IF output_dir = "" THEN default_output_dir ELSE output_dir,
                paths, directories).status = "ok"
    THEN [c EXCEPT !.eda_tools[c.simulator].environment_variables =
                      environment_variables_after_loop(
                          c.eda_tools[c.simulator])]
    ELSE c

\* path = shell_generator.generate_netlist_script(output_dir)
GenerateNetlistScript ==
    \E output_dir \in OutputDirs :
        \E s \in {generate_netlist_script(config, fs, dirs, files,
                                          output_dir)} :
            /\ fs' = s.fs
            /\ dirs' = s.dirs
            /\ files' = s.files
            /\ config' = config_after_netlist_script(config, fs, dirs,
                                                     output_dir)
            /\ outcome' = [op |-> "generate_netlist_script",
                           returned |-> s.returned]
                          @@ Result(s.status, config', <<>>, <<>>)
            /\ UNCHANGED <<session, documents, reader, tool_state,
                           generator_state>>

\* tools whose environment lines have blanks around them
FrameTools ==
    {EDASToolsConfig,
     [EDASToolsConfig EXCEPT
        !.spectre = EDATool("spectre", <<"+aps">>,
                            <<"  source /a ", "BAR=1", " export C=3">>)]}

\* configurations with and without a results directory and optional parts
FrameConfigs ==
    {[c EXCEPT !.simulator = simulator, !.eda_tools = eda_tools] :
        c \in OceanConfigsOn({"", "/w/sim"}, {<<>>, <<DcAnalysis>>},
                             SaveParts),
        simulator \in {"spectre", "hspice"},
        eda_tools \in FrameTools}

\* the two generators constructed on one configuration, and the spectre
\* entry of its tools
InitFrame ==
    /\ task_yaml = EmptyMap
    /\ testbench_yaml = EmptyMap
    /\ testbench_parses = TRUE
    /\ system_yaml = EmptyMap
    /\ \E d \in {d \in OceanDisks : Cardinality(d.dirs) < 2} :
           fs = d.fs /\ dirs = d.dirs
    /\ files = EmptyMap
    /\ reader = ReaderObject("none", EmptyMap, EmptyMap, EmptyMap)
    /\ config \in FrameConfigs
    /\ outcome = NoOutcome
    /\ tool = config.eda_tools.spectre
    /\ commands = NoCommands
    /\ analysis_templates = {"tran"}
    /\ script_content = <<>>
    /\ script = <<>>
    /\ SessionIdle

\* the calls of the claim, in any order
NextFrame ==
    \/ GenerateScript
    \/ SaveScript
    \/ GenerateNetlistScript
    \/ GetSourceCommands
    \/ GetExportCommands

SpecFrame == InitFrame /\ [][NextFrame]_vars

-----------------------------------------------------------------------------
(* Claim C23 *)

\* C23: no step of generate_script, save_script, generate_netlist_script,
\* get_source_commands or get_export_commands changes a field of the
\* configuration or the environment lines of a tool
C23_GenerationKeepsConfiguration ==
    [][/\ config' = config
       /\ tool'.environment_variables = tool.environment_variables]_vars

\* all five calls were made on a configuration whose spectre entry has
\* environment lines with blanks around them: the script was generated and
\* saved, the netlist wrapper written and both command lists asked for
C23_Witness ==
    /\ config.eda_tools.spectre.environment_variables
           = <<"  source /a ", "BAR=1", " export C=3">>
    /\ tool = config.eda_tools.spectre
    /\ script # <<>>
    /\ "run.ocn" \in DOMAIN files
    /\ \E p \in DOMAIN files : files[p].executable
    /\ commands.asked = {"source", "export"}
    /\ commands.source = <<"source /a">>
    /\ outcome.op = "generate_netlist_script" /\ outcome.status = "ok"

-----------------------------------------------------------------------------
(* Claim C24 *)

\* validate_config reports at least one error for the configuration of the
\* executor
ValidationReportsErrors ==
    /\ validate_config(config).status = "ok"
    /\ validate_config(config).errors # <<>>

\* the scripts, results, logs and temp directories of the work directory
\* that are on the disk
WorkDirectoriesMade ==
    {join(manager.work_dir, work_directories[i]) :
        i \in DOMAIN work_directories} \cap fs

\* C24: prepare_simulation returns and never raises; when validate_config
\* reports an error it returns False, makes none of the work directories
\* and leaves ocean_script_path unset, and a run_ocean_simulation that
\* follows returns failure "Ocean script not generated" with the status
\* still "Not started"
C24_InvalidConfigurationPreparesNothing ==
    /\ outcome.op = "prepare_simulation" => outcome.status = "ok"
    /\ executor.prepared /\ ValidationReportsErrors =>
        /\ outcome.op = "prepare_simulation" => ~outcome.success
        /\ WorkDirectoriesMade = {}
        /\ executor.ocean_script_path = ""
        /\ executor.simulation_status = "Not started"
        /\ outcome.op = "run_ocean_simulation" =>
            /\ ~outcome.success
            /\ outcome.output = "Ocean script not generated"

\* a configuration without analyses was prepared and then run: the run
\* failed for want of a script, and the work directory has no scripts
\* directory
C24_Witness ==
    /\ executor.prepared
    /\ config.analyses = <<>>
    /\ ValidationReportsErrors
    /\ outcome.op = "run_ocean_simulation"
    /\ outcome.output = "Ocean script not generated"
    /\ executor.simulation_status = "Not started"
    /\ manager.work_dir \in dirs
    /\ join(manager.work_dir, "scripts") \notin fs

-----------------------------------------------------------------------------
(* Claim C25 *)

\* C25: a generate_script that succeeds after an earlier one returns the
\* document the earlier one returned, and a save_script that succeeds after
\* a generate_script writes that document
C25_RepeatedGenerationReturnsSameDocument ==
    [][/\ (outcome'.op = "generate_script" /\ outcome'.status = "ok"
           /\ script # <<>>)
             => script' = script
       /\ (outcome'.op = "save_script" /\ outcome'.status = "ok"
           /\ script # <<>>)
             => /\ files'[outcome'.output_file].content = Written(script)
                /\ script_content' = script]_vars

\* generate_script has returned the document of a configuration with two
\* analyses for at least the second time: a script saved before holds the
\* same fragments, and the generator holds them once
C25_Witness ==
    /\ outcome.op = "generate_script"
    /\ outcome.status = "ok"
    /\ Len(config.analyses) = 2
    /\ script_content = script
    /\ "run.ocn" \in DOMAIN files
    /\ files["run.ocn"].content = Written(script)

-----------------------------------------------------------------------------
(* Claim C26 *)

\* the two files of the package written to an output directory
PackageFiles(output_dir) ==
    {join(PackageDir(output_dir), project_name(config) \o ".ocn"),
     join(PackageDir(output_dir),
          "run_" \o project_name(config) \o "_ocean.sh")}

\* C26: a generate_complete_simulation_package that raises has written
\* neither the simulation script nor the shell wrapper: the files of the
\* package are as they were before the call
C26_PackageAllOrNothing ==
    [][(/\ outcome'.op = "generate_complete_simulation_package"
        /\ outcome'.status # "ok")
       => \A f \in PackageFiles(outcome'.output_dir) :
             /\ f \in DOMAIN files' <=> f \in DOMAIN files
             /\ f \in DOMAIN files => files'[f] = files[f]]_vars

-----------------------------------------------------------------------------
(* Claim C27 *)

\* C27: whenever get_simulation_status reports a duration, the end_time it
\* is computed from was set by the same run_ocean_simulation call as
\* start_time and is not earlier than start_time
C27_DurationWithinOneRun ==
    (outcome.op = "get_simulation_status"
     /\ outcome.status_info.duration # <<>>)
    => /\ executor.end_run = executor.runs
       /\ outcome.status_info.duration[1] >= 0

-----------------------------------------------------------------------------
(* Claim C28 *)

\* names a configuration can give as its simulator
SimulatorNames ==
    {"spectre", "virtuoso", "hspice", "", "get_tool_config", "__class__"}

\* C28: get_tool_config gives a tool for spectre and for virtuoso and None
\* for every other name, so that validate_config, for a simulator that is
\* neither, returns its list with the entry that no tool configuration was
\* found
C28_OnlySimulatorsHaveToolConfig ==
    outcome.op = "validate_config" =>
        /\ \A name \in SimulatorNames :
              get_tool_config(config.eda_tools, name).kind
                  = IF name \in {"spectre", "virtuoso"} THEN "tool"
                    ELSE "none"
        /\ config.simulator \notin {"spectre", "virtuoso"} =>
              /\ outcome.status = "ok"
              /\ ("No tool configuration found for simulator: "
                      \o config.simulator) \in Entries(outcome.errors)

-----------------------------------------------------------------------------
(* Loading again *)

\* the user edits the task file or the testbench file between two loads:
\* another task, or a testbench that no longer parses
EditConfigurationFiles ==
    /\ \E task \in ManagerTasks, parses \in BOOLEAN :
        /\ <<task, parses>> # <<task_yaml, testbench_parses>>
        /\ task_yaml' = task
        /\ testbench_parses' = parses
    /\ outcome' = NoOutcome
    /\ UNCHANGED <<session, disk, testbench_yaml, system_yaml, reader,
                   config, tool_state, generator_state>>

NextReload == LoadSimulationConfiguration \/ EditConfigurationFiles

\* a manager that loads its configuration again after the files changed
SpecReload == InitManager /\ [][NextReload]_vars

-----------------------------------------------------------------------------
(* Claim C29 *)

\* what load_task_config does on the files as they are
LoadOfTaskFile == load_task_config(ConfigReader(TaskFile))

\* C29: load_simulation_configuration raises exactly when the reader
\* raises; a call that raises leaves the configuration of the manager as it
\* was, and the configuration is replaced only by one for which
\* validate_config has no entry
C29_FailedLoadKeepsConfiguration ==
    [][outcome'.op = "load_simulation_configuration" =>
        /\ outcome'.status = LoadOfTaskFile.status
        /\ outcome'.status # "ok" => manager' = manager
        /\ manager' # manager =>
              /\ outcome'.status = "ok"
              /\ manager'.loaded
              /\ manager'.config = LoadOfTaskFile.config
              /\ validate_config(manager'.config)
                     = [status |-> "ok", errors |-> <<>>]]_vars

\* a manager that holds the spectre configuration of an earlier load after
\* a load of the edited task file, which names hspice, has raised
C29_Witness ==
    /\ outcome.op = "load_simulation_configuration"
    /\ outcome.status = "ValueError"
    /\ manager.loaded
    /\ manager.config.simulator = "spectre"
    /\ "simulation" \in DOMAIN task_yaml
    /\ task_yaml["simulation"]["simulator"] = "hspice"

(* simulation_manager.py: the interactive mode *)

\* what the menu prints when an operation needs a configuration
LoadFirst == "Please load configuration file first"

\* what input() gives when the input has ended
EndOfInput == "EOFError"

\* what one turn of the menu leaves: where the loop stands, what was
\* printed last, the exception the try statement caught ("ok" for none), the
\* manager and the disk
Turned(at, printed, caught, m, paths, directories, written) ==
    [at |-> at, printed |-> printed, caught |-> caught, manager |-> m,
     fs |-> paths, dirs |-> directories, files |-> written]

\* a try statement of the menu that lets the exception of the operation
\* through
after_operation_uncaught(status) ==
    IF status = "ok" THEN "pause" ELSE "raised"

\* where the loop stands after the try statement of the menu, the operation
\* having raised status: except Exception prints it and the loop goes on to
\* the prompt that waits for Enter
after_operation(status) ==
    "pause"

\* the timeouts typed: nothing, digits, and digits with a unit
TimeoutsTyped == {"", "60", "1h"}

\* int(timeout_str) if timeout_str else 3600: the exception it raises, for
\* a text of TimeoutsTyped
int_of_timeout(timeout_str) ==
    IF timeout_str \in {"", "60"} THEN "ok" ELSE "ValueError"

\* one turn of the loop of interactive_mode from the menu to the next
\* prompt: choice is what the read at the menu gives, answer what the read
\* inside the operation gives; the wrapper and the simulator end as given
interactive_mode(m, choice, answer, handlers, templates, paths, directories, written, wrapper, simulator) ==
    LET Same(at, printed, caught) ==
            Turned(at, printed, caught, m, paths, directories, written)
        Failed(status) ==
            Same(after_operation(status), "Operation failed", status)
    IN  IF choice = EndOfInput
        THEN Same("raised", "", "ok")
        ELSE IF choice = "1"
        THEN IF answer = EndOfInput THEN Failed(EndOfInput)
             ELSE The({Turned(after_operation(l.status),
                              IF l.status = "ok"
                              THEN "Configuration file loaded successfully!"
                              ELSE "Operation failed",
                              l.status, [l.manager EXCEPT !.at = m.at],
                              paths, directories, written) :
                       l \in {load_simulation_configuration(m, answer)}})
        ELSE IF choice = "2"
        THEN Same(after_operation("ok"),
                  IF m.loaded THEN "Configuration Summary" ELSE LoadFirst,
                  "ok")
        ELSE IF choice \in {"3", "4", "5", "6", "7"} /\ ~m.loaded
        THEN Same("menu", LoadFirst, "ok")
        ELSE IF choice = "3"
        THEN The({Turned(after_operation(n.status), "netlist script",
                         n.status, m, n.fs, n.dirs, n.files) :
                  n \in {_generate_netlist_script(m, paths, directories,
                                                  written, "")}})
        ELSE IF choice = "4"
        THEN The({Turned(after_operation(n.status), "netlist shell script",
                         n.status, m, n.fs, n.dirs, n.files) :
                  n \in {_generate_netlist_shell_script(
                             m, paths, directories, written, "")}})
        ELSE IF choice = "5"
        THEN IF answer = EndOfInput THEN Failed(EndOfInput)
             ELSE The({Turned(after_operation(s.status),
                              IF s.status = "ok"
                              THEN "Ocean simulation package generated!"
                              ELSE "Operation failed",
                              s.status, m, s.fs, s.dirs, s.files) :
                       s \in {generate_complete_scripts(
                                  m, templates, paths, directories, written,
                                  answer)}})
        ELSE IF choice \in {"6", "7"} /\ answer = EndOfInput
        THEN Failed(EndOfInput)
        ELSE IF choice \in {"6", "7"} /\ int_of_timeout(answer) # "ok"
        THEN Failed(int_of_timeout(answer))
        ELSE IF choice = "6"
        THEN The({Turned(after_operation(r.status), "simulation package",
                         r.status, m, r.fs, r.dirs, r.files) :
                  r \in {run_simulation_package(m, templates, paths,
                                                directories, written,
                                                wrapper)}})
        ELSE IF choice = "7"
        THEN The({Turned(IF r.ended THEN after_operation(r.status)
                         ELSE "operation",
                         "legacy simulation",
                         r.status, m, r.fs, r.dirs, r.files) :
                  r \in {run_simulation(m, handlers, templates, paths,
                                        directories, written, "",
                                        simulator)}})
        ELSE IF choice = "8"
        THEN Same(after_operation("ok"), "simulation status", "ok")
        ELSE IF choice = "9"
        THEN Same("ended", "Exiting program", "ok")
        ELSE Same(after_operation("ok"),
                  "Invalid selection, please try again", "ok")

\* what is typed at the menu, with the end of the input
Choices == {"1", "2", "3", "4", "5", "6", "7", "8", "9", "0", EndOfInput}

\* what is typed at the prompt of an operation, with the end of the input
Answers(choice) ==
    IF choice = "1" THEN ConfigFiles \cup {EndOfInput}
    ELSE IF choice = "5" THEN OutputDirs \cup {EndOfInput}
    ELSE IF choice \in {"6", "7"} THEN TimeoutsTyped \cup {EndOfInput}
    ELSE {""}

\* manager.interactive_mode() is called: the banner is printed and the loop
\* is at its menu
InteractiveMode ==
    /\ manager.at = "none"
    /\ manager' = [manager EXCEPT !.at = "menu"]
    /\ outcome' = [op |-> "interactive_mode", choice |-> "", answer |-> "",
                   printed |-> "Interactive Mode", caught |-> "ok",
                   read |-> "none"]
                  @@ Result("ok", manager.config, <<>>, <<>>)
    /\ UNCHANGED <<execution, disk, documents, reader, config, tool_state,
                   generator_state>>

\* the menu is printed, a choice is read and its operation runs
InteractiveChoice ==
    /\ manager.at = "menu"
    /\ \E choice \in Choices :
       \E answer \in Answers(choice), handlers \in BOOLEAN :
       \E wrapper \in IF choice = "6" THEN WrapperRuns ELSE {"exit 0"},
          simulator \in IF choice = "7" THEN SimulatorRuns ELSE {"exit 0"} :
       \E t \in {interactive_mode(manager, choice, answer, handlers,
                                  analysis_templates, fs, dirs, files,
                                  wrapper, simulator)} :
            /\ manager' = [t.manager EXCEPT !.at = t.at]
            /\ fs' = t.fs
            /\ dirs' = t.dirs
            /\ files' = t.files
            /\ outcome' = [op |-> "interactive_mode", choice |-> choice,
                           answer |-> answer, printed |-> t.printed,
                           caught |-> t.caught,
                           read |-> IF choice = EndOfInput THEN "menu"
                                    ELSE "none"]
                          @@ Result(IF choice = EndOfInput THEN EndOfInput
                                    ELSE IF t.at = "raised" THEN t.caught
                                    ELSE "ok",
                                    t.manager.config, <<>>, <<>>)
            /\ UNCHANGED <<execution, documents, reader, config, tool_state,
                           generator_state>>

\* input("Press Enter to continue...") after the try statement: Enter leads
\* to the menu, the end of the input raises out of interactive_mode
InteractiveContinue ==
    /\ manager.at = "pause"
    /\ \E line \in {"", EndOfInput} :
            /\ manager' = [manager EXCEPT
                               !.at = IF line = EndOfInput THEN "raised"
                                      ELSE "menu"]
            /\ outcome' = [op |-> "interactive_mode", choice |-> "",
                           answer |-> line, printed |-> "",
                           caught |-> "ok",
                           read |-> IF line = EndOfInput THEN "pause"
                                    ELSE "none"]
                          @@ Result(IF line = EndOfInput THEN EndOfInput
                                    ELSE "ok",
                                    manager.config, <<>>, <<>>)
    /\ UNCHANGED <<execution, disk, documents, reader, config, tool_state,
                   generator_state>>

\* manager.run_simulation() called by a program
RunSimulation ==
    \E handlers \in BOOLEAN, simulator \in SimulatorRuns :
        \E r \in {run_simulation(manager, handlers, analysis_templates,
                                 fs, dirs, files, "", simulator)} :
            /\ manager' = [manager EXCEPT
                               !.at = IF r.ended THEN @ ELSE "operation"]
            /\ fs' = r.fs
            /\ dirs' = r.dirs
            /\ files' = r.files
            /\ outcome' = [op |-> "run_simulation", success |-> r.success,
                           ended |-> r.ended]
                          @@ Result(r.status, manager.config, <<>>, <<>>)
            /\ UNCHANGED <<execution, documents, reader, config, tool_state,
                           generator_state>>

\* a program that calls the operations of its manager one after the other,
\* and a user at the menu of the interactive mode
NextInteractive ==
    \/ InteractiveMode
    \/ InteractiveChoice
    \/ InteractiveContinue
    \/ manager.at = "none" /\ LoadSimulationConfiguration
    \/ manager.at = "none" /\ GenerateCompleteScripts
    \/ manager.at = "none" /\ RunSimulationPackage
    \/ manager.at = "none" /\ RunSimulation

SpecInteractive == InitManager /\ [][NextInteractive]_vars

(* Claim C30 *)

\* the choices of the menu that need a configuration
MenuOperations == {"3", "4", "5", "6", "7"}

\* the operations of the manager that raise without a configuration
GuardedOperations ==
    {"generate_complete_scripts", "run_simulation_package", "run_simulation"}

\* a step of the interactive loop
MenuStep == outcome'.op = "interactive_mode" /\ manager.at \in {"menu", "pause"}

\* a step taken without a configuration: no file is made and no process
\* started, a choice 3 to 7 of the menu prints its message and leads back
\* to the menu, and a guarded operation raises ValueError
WithoutConfigurationNothingHappens ==
    ~manager.loaded =>
        /\ UNCHANGED <<fs, dirs, files, executor, simulation_process>>
        /\ files = EmptyMap /\ simulation_process = NoProcess
        /\ MenuStep /\ outcome'.choice \in MenuOperations =>
              /\ outcome'.printed = LoadFirst
              /\ outcome'.caught = "ok"
              /\ manager' = manager
        /\ outcome'.op \in GuardedOperations =>
              /\ outcome'.status = "ValueError"
              /\ manager' = manager

\* an operation of the menu that fails leaves the loop at its next prompt
FailureKeepsLoop ==
    MenuStep /\ outcome'.caught # "ok" => manager'.at = "pause"

\* the loop is left by choice 9 only
LeftByExitOnly ==
    MenuStep /\ manager'.at \in {"ended", "raised"} =>
        outcome'.choice = "9" /\ manager'.at = "ended"

\* the loop is left by choice 9, or by a read at one of its two prompts
\* that raises
LeftByExitOrRead ==
    MenuStep /\ manager'.at \in {"ended", "raised"} =>
        \/ outcome'.choice = "9" /\ manager'.at = "ended"
        \/ /\ outcome'.read \in {"menu", "pause"}
           /\ outcome'.status = EndOfInput
           /\ outcome'.caught = "ok"
           /\ manager'.at = "raised"

\* C30 as stated: while no configuration is loaded nothing is generated and
\* nothing is spawned, choices 3 to 7 of the menu only print a message, the
\* three guarded operations raise before they make a file, a failed
\* operation never ends the interactive loop, and the loop ends by choice 9
\* only
C30_LoopEndsByExitOnly ==
    [][/\ WithoutConfigurationNothingHappens
       /\ FailureKeepsLoop
       /\ LeftByExitOnly]_vars

\* C30 as the code has it: while no configuration is loaded nothing is
\* generated and nothing is spawned, choices 3 to 7 of the menu only print a
\* message, the three guarded operations raise before they make a file, a
\* failed operation never ends the interactive loop, and the loop ends by
\* choice 9 or when the read at the menu or at "Press Enter to continue"
\* raises, both reads being outside the try statement
C30_LoopEndsByExitOrFailedRead ==
    [][/\ WithoutConfigurationNothingHappens
       /\ FailureKeepsLoop
       /\ LeftByExitOrRead]_vars

\* without a configuration, generating the simulation package was chosen at
\* the menu: the message is printed, the loop is at its menu and nothing
\* was written
C30_Witness ==
    /\ ~manager.loaded
    /\ manager.at = "menu"
    /\ outcome.op = "interactive_mode"
    /\ outcome.choice = "5"
    /\ outcome.printed = LoadFirst
    /\ files = EmptyMap
    /\ simulation_process = NoProcess

====
